---- MODULE Spec2Model ----
(***************************************************************************)
(* Video Speed Controller: the Settings Store (storage module with         *)
(* content-specific speeds), the content id resolver and the               *)
(* content-specific enforcer (content.js), with the page and the other     *)
(* contexts that write the store as the environment.                       *)
(*                                                                         *)
(* Playback rates are integers counting tenths (1.0 is 10, 0.5 is 5, 5.0   *)
(* is 50), so the 0.01 tolerance of the ratechange listener separates any  *)
(* two distinct values.  Strings are sequences of tokens; the tokens are   *)
(* the lexical units the resolver's patterns tell apart ("/", ".", a path  *)
(* segment, a run of digits).                                              *)
(*                                                                         *)
(* Under Spec every handler runs from its call to its completion as one    *)
(* step, except where it waits on a timer (the settle delay of a           *)
(* navigation, the rescan debounce, the correction delay, setTimeout 0)    *)
(* or on a queued DOM event: there the handler is split and every other    *)
(* step may run in between.                                                *)
(***************************************************************************)
EXTENDS Integers, Sequences, FiniteSets, TLC

----------------------------------------------------------------------------
(* Bounds of the model *)

\* number of video elements the page ever creates
NumVideos == 1
\* setTimeout(..., 0) callbacks of the URL change detection pending at once
MaxNavTimers == 1
\* correction timers (setTimeout 10) pending at once per video element
MaxCorrTimers == 1
\* number of browser tabs
NumTabs == 2
\* loadSettings runs of one enforcer suspended at a storage read at once
MaxLoads == 2
\* startup and installed events the background ever handles
MaxMenuRuns == 2
\* storage change notifications waiting to be delivered to the simple enforcer
MaxChanges == 1
\* setContentSpeed and removeContentSpeed calls that contexts ever make
\* concurrently
MaxCalls == 2

----------------------------------------------------------------------------
(* Program constants *)

MinSpeed == 5
MaxSpeed == 50
DefaultSpeedValue == 10
NormalSpeed == 10
InitialSpeed == 10
\* the rate of a video element nothing has touched: normal speed
ElementDefaultRate == NormalSpeed
\* getContentSpeed's "no entry" result (null)
NullSpeed == -1000
\* a speed field of the simple enforcer that holds undefined
UndefinedSpeed == -2000
\* no originalRate recorded for an element in the simple enforcer's WeakMap
NotStored == 0

Videos == 1..NumVideos

\* speed payloads of messages and of store calls: below the range, inside, above
SpeedInputs == {2, 30, 60}
\* delta payloads of adjustSpeed
Deltas == {-50, 50}
\* delta payloads of the adjustSpeed messages of the keyboard commands (0.1
\* down, 0.1 up), and two that overshoot the range
KeyDeltas == {-50, -1, 1, 50}
\* rates the page itself gives a video element
PageRates == {30}
\* speeds another context stores while the enforcer runs
DefaultInputs == {30}
\* speed arguments of direct calls of the Settings Store
StoreSpeedInputs == {0, 2, 5, 15, 50, 60}

----------------------------------------------------------------------------
(* Strings as token sequences *)

\* String.prototype.includes
Includes(s, sub) ==
    \E i \in 1..(Len(s) - Len(sub) + 1) : SubSeq(s, i, i + Len(sub) - 1) = sub

\* the tokens matched by \d
DigitTokens == {"70143836", "123"}

NotSlash(t) == t # "/"
IsDigit(t) == t \in DigitTokens

\* does token t belong to the character class cls: [^\/] or \d
InClass(t, cls) == IF cls = "digit" THEN IsDigit(t) ELSE NotSlash(t)

\* the longest run of tokens of s from position i on that belong to cls: what
\* [^\/]+ or \d+ consumes from there
RECURSIVE RunFrom(_, _, _)
RunFrom(s, i, cls) ==
    IF i > Len(s) \/ ~InClass(s[i], cls) THEN <<>>
    ELSE <<s[i]>> \o RunFrom(s, i + 1, cls)

\* position of the leftmost match, 0 when there is none
LeftMost(S) == IF S = {} THEN 0 ELSE CHOOSE i \in S : \A j \in S : i <= j

\* /\/(channel\/[^\/]+|@[^\/]+)/ : capture group 1 of the leftmost match
ChannelMatch(p) ==
    LET chan(i) == /\ i + 3 <= Len(p)
                   /\ p[i] = "/" /\ p[i+1] = "channel" /\ p[i+2] = "/"
                   /\ p[i+3] # "/"
        hand(i) == /\ i + 2 <= Len(p)
                   /\ p[i] = "/" /\ p[i+1] = "@" /\ p[i+2] # "/"
        i0 == LeftMost({i \in 1..Len(p) : chan(i) \/ hand(i)})
    IN  IF i0 = 0 THEN <<>>
        ELSE IF chan(i0) THEN <<"channel", "/">> \o RunFrom(p, i0 + 3, "notslash")
        ELSE <<"@">> \o RunFrom(p, i0 + 2, "notslash")

TitleMatchAnySegment(p) ==
    LET m(i) == /\ i + 3 <= Len(p)
                /\ p[i] = "/" /\ p[i+1] = "title" /\ p[i+2] = "/"
                /\ p[i+3] # "/"
        i0 == LeftMost({i \in 1..Len(p) : m(i)})
    IN  IF i0 = 0 THEN <<>> ELSE RunFrom(p, i0 + 3, "notslash")
\* /\/title\/(\d+)/ : capture group 1 of the leftmost match
TitleMatch(p) ==
    LET m(i) == /\ i + 3 <= Len(p)
                /\ p[i] = "/" /\ p[i+1] = "title" /\ p[i+2] = "/"
                /\ IsDigit(p[i+3])
        i0 == LeftMost({i \in 1..Len(p) : m(i)})
    IN  IF i0 = 0 THEN <<>> ELSE RunFrom(p, i0 + 3, "digit")

FirstSegmentMatchGreedy(p) ==
    IF Len(p) >= 2 /\ p[1] = "/" /\ p[2] # "/" THEN SubSeq(p, 2, Len(p))
    ELSE <<>>
\* /^\/([^\/]+)(?:\/|$)/ : capture group 1
FirstSegmentMatch(p) ==
    IF Len(p) >= 2 /\ p[1] = "/" /\ p[2] # "/" THEN RunFrom(p, 2, "notslash")
    ELSE <<>>

\* /\/(\d+)/ : capture group 1 of the leftmost match
DigitsMatch(p) ==
    LET m(i) == i + 1 <= Len(p) /\ p[i] = "/" /\ IsDigit(p[i+1])
        i0 == LeftMost({i \in 1..Len(p) : m(i)})
    IN  IF i0 = 0 THEN <<>> ELSE RunFrom(p, i0 + 1, "digit")

\* A URL: href is the whole string; valid says whether new URL(href) parses;
\* hostname, pathname and v (the v query parameter, <<>> when there is none or
\* it is empty) are the parts the resolver reads.
MkUrl(h, p, q) ==
    [href |-> <<"https", "://">> \o h \o p \o (IF q = <<>> THEN <<>> ELSE <<"?v=">> \o q),
     valid |-> TRUE, hostname |-> h, pathname |-> p, v |-> q]

GenerateContentId(u) ==
    IF ~u.valid THEN u.href
    ELSE
    LET hostname == u.hostname
        pathname == u.pathname
    IN  IF Includes(hostname, <<"youtube", ".", "com">>)
           \/ Includes(hostname, <<"youtu", ".", "be">>)
        THEN IF Includes(pathname, <<"/", "channel", "/">>)
                \/ Includes(pathname, <<"/", "@">>)
             THEN IF ChannelMatch(pathname) # <<>>
                  THEN <<"youtube", ":">> \o ChannelMatch(pathname)
                  ELSE <<"youtube", ":">> \o pathname
             ELSE IF u.v # <<>>
                  THEN <<"youtube", ":", "video", ":">> \o u.v
                  ELSE <<"youtube", ":">> \o pathname
        ELSE IF Includes(hostname, <<"netflix", ".", "com">>)
        THEN IF TitleMatch(pathname) # <<>>
             THEN <<"netflix", ":", "title", ":">> \o TitleMatch(pathname)
             ELSE <<"netflix", ":">> \o pathname
        ELSE IF Includes(hostname, <<"twitch", ".", "tv">>)
        THEN IF FirstSegmentMatch(pathname) # <<>>
                /\ FirstSegmentMatch(pathname) # <<"directory">>
             THEN <<"twitch", ":">> \o FirstSegmentMatch(pathname)
             ELSE <<"twitch", ":">> \o pathname
        ELSE IF Includes(hostname, <<"vimeo", ".", "com">>)
        THEN IF DigitsMatch(pathname) # <<>>
             THEN <<"vimeo", ":">> \o DigitsMatch(pathname)
             ELSE <<"vimeo", ":">> \o pathname
        ELSE hostname \o <<":">> \o pathname

\* the pages the tab visits
UrlWatch == MkUrl(<<"www", ".", "youtube", ".", "com">>, <<"/", "watch">>, <<"abc123">>)
UrlExample == MkUrl(<<"example", ".", "com">>, <<"/", "foo", "/", "bar">>, <<>>)
PageUrls == {UrlWatch, UrlExample}

\* contentId before the first loadSettings (null)
NullId == <<>>
\* the property name under which a mapping object holds an id: null is "null"
KeyOf(id) == IF id = NullId THEN <<"null">> ELSE id

ContentIds == {GenerateContentId(u) : u \in PageUrls}

----------------------------------------------------------------------------
(* State *)

VARIABLES
    \* Settings Store: chrome.storage.sync and chrome.storage.local, each a
    \* mapping from the keys that are present to their values
    sync, local,
    \* the page: window.location.href, the video elements attached to the
    \* document, every element's playbackRate, the elements with a ratechange
    \* event queued and not yet dispatched
    url, docVideos, rate, rcQueued,
    \* the enforcer (VideoSpeedController)
    phase,            \* "constructed" until init() has completed, then "ready"
    videos, isEnabled, currentSpeed, contentId, processingUrls,
    videoProcessTimeout,   \* the rescan debounce timers that are pending
    listening,        \* the elements that carry the enforcer's listeners
    corrTimers,       \* per element, the pending correction timers
    lastUrl,          \* the closure variable of setupUrlChangeDetection
    navTimers,        \* the pending setTimeout(.., 0) callbacks, in order
    navRuns,          \* the handleUrlChange runs waiting in their settle delay:
                      \* the newUrl of each, in the order they started
    loads,            \* the loadSettings runs suspended at a storage read
    \* history of the run, read by the properties only
    lastOp,           \* the handler that ran last ("other" for those no
                      \* property is about)
    wrote,            \* the playbackRate assignments <<element, value>> it made
    offTracked,       \* the tracked set at the last toggle-off while the
                      \* extension stays off, {0} otherwise
    urlSetBy,         \* what set the current URL: "load", "history", "popstate"
    responses,        \* the sendResponse calls of the message handler that ran
                      \* in the last step, in order (<<>> after any other step)
    \* a direct call of the Settings Store: the call that returned last
    got,
    \* the browser's tabs, as the background sees them
    tabListens,       \* the tabs whose content script has a message listener
    activeTabs,       \* what chrome.tabs.query({active, currentWindow}) returns
    \* the background service worker: what its last handler run did
    sent,             \* its chrome.tabs.sendMessage calls, in order
    caught,           \* it caught (and logged) an error
    uncaught,         \* an error left a handler of the background
    failedBefore,     \* a delivery to a tab has failed in an earlier run
    \* the context menu
    contextMenus,     \* the browser's registry of the extension's entries, in
                      \* the order of their creation
    menuRequests,     \* the chrome.contextMenus calls the browser has yet to
                      \* carry out, in the order they were made
    menuRuns,         \* the runs of the startup and installed handlers so far:
                      \* the event of each and how far it is
    \* the simple enforcer (the content script without content-specific speeds)
    simple,
    \* the setContentSpeed and removeContentSpeed calls of the Settings Store
    \* made by any context, in the order they started: how far each is
    pending

storeVars == <<sync, local>>
pageVars == <<url, docVideos, rate, rcQueued>>
enforcerVars == <<phase, videos, isEnabled, currentSpeed, contentId, processingUrls,
                  videoProcessTimeout, listening, corrTimers, lastUrl, navTimers,
                  navRuns, loads>>
historyVars == <<lastOp, wrote, offTracked, urlSetBy>>
tabVars == <<tabListens, activeTabs>>
menuVars == <<contextMenus, menuRequests, menuRuns>>
simpleVars == <<simple>>
bgVars == <<tabListens, activeTabs, sent, caught, uncaught, failedBefore,
            contextMenus, menuRequests, menuRuns>>
vars == <<sync, local, url, docVideos, rate, rcQueued, phase, videos, isEnabled,
          currentSpeed, contentId, processingUrls, videoProcessTimeout, listening,
          corrTimers, lastUrl, navTimers, lastOp, wrote, offTracked, urlSetBy,
          responses, got, tabListens, activeTabs, sent, caught, uncaught,
          failedBefore, contextMenus, menuRequests, menuRuns, navRuns, loads,
          simple, pending>>

\* offTracked when the extension was not switched off by a toggle
NotOff == {0}

----------------------------------------------------------------------------
(* Settings Store *)

EmptyMap == <<>>

\* obj with obj[k] = v set
Put(obj, k, v) == [x \in (DOMAIN obj) \cup {k} |-> IF x = k THEN v ELSE obj[x]]
\* obj with "delete obj[k]" done
Delete(obj, k) == [x \in (DOMAIN obj) \ {k} |-> obj[x]]

Max2(a, b) == IF a >= b THEN a ELSE b
Min2(a, b) == IF a <= b THEN a ELSE b

ClampNoUpper(speed) == Max2(MinSpeed, speed)
\* Math.max(0.5, Math.min(5.0, speed))
Clamp(speed) == Max2(MinSpeed, Min2(MaxSpeed, speed))

GetDefaultSpeedCompiledIn(s) == DefaultSpeedValue
\* getDefaultSpeed: result.defaultSpeed || 1.0
GetDefaultSpeed(s) ==
    IF "defaultSpeed" \in DOMAIN s /\ s["defaultSpeed"] # 0
    THEN s["defaultSpeed"] ELSE DefaultSpeedValue

\* setDefaultSpeed: the synchronized namespace afterwards
SetDefaultSpeed(s, speed) == Put(s, "defaultSpeed", Clamp(speed))

\* getEnabled
GetEnabled(s) == IF "enabled" \in DOMAIN s THEN s["enabled"] ELSE TRUE

\* setEnabled: the synchronized namespace afterwards
SetEnabled(s, enabled) == Put(s, "enabled", enabled)

\* result.contentSpeeds || {}
ContentSpeedsOf(l) ==
    IF "contentSpeeds" \in DOMAIN l THEN l["contentSpeeds"] ELSE EmptyMap

\* getContentSpeed: contentSpeeds[contentId] || null
GetContentSpeed(l, id) ==
    LET contentSpeeds == ContentSpeedsOf(l)
    IN  IF KeyOf(id) \in DOMAIN contentSpeeds /\ contentSpeeds[KeyOf(id)] # 0
        THEN contentSpeeds[KeyOf(id)] ELSE NullSpeed

\* setContentSpeed: the local namespace afterwards
SetContentSpeed(l, id, speed) ==
    Put(l, "contentSpeeds", Put(ContentSpeedsOf(l), KeyOf(id), Clamp(speed)))

RemoveContentSpeedAll(l, id) == Put(l, "contentSpeeds", EmptyMap)
RemoveContentSpeedKeep(l, id) == Put(l, "contentSpeeds", ContentSpeedsOf(l))
\* removeContentSpeed: the local namespace afterwards
RemoveContentSpeed(l, id) ==
    Put(l, "contentSpeeds", Delete(ContentSpeedsOf(l), KeyOf(id)))

\* getAllContentSpeeds
GetAllContentSpeeds(l) == ContentSpeedsOf(l)

----------------------------------------------------------------------------
(* Enforcer: the synchronous parts *)

\* loadSettings: isEnabled, contentId and currentSpeed afterwards, with the
\* store (s, l), the page at u and the enforcer's fields before (cid, cs)
LoadSettingsDefaultOnly(s, l, u, cid, cs) ==
    IF ~GetEnabled(s)
    THEN [isEnabled |-> FALSE, contentId |-> cid, currentSpeed |-> cs]
    ELSE [isEnabled |-> TRUE, contentId |-> GenerateContentId(u),
          currentSpeed |-> GetDefaultSpeed(s)]
LoadSettings(s, l, u, cid, cs) ==
    IF ~GetEnabled(s)
    THEN [isEnabled |-> FALSE, contentId |-> cid, currentSpeed |-> cs]
    ELSE LET id == GenerateContentId(u)
             speed == GetContentSpeed(l, id)
         IN  [isEnabled |-> TRUE, contentId |-> id,
              currentSpeed |-> IF speed = NullSpeed THEN GetDefaultSpeed(s)
                               ELSE speed]

\* processVideoElements: the elements it sets up, with isEnabled en and the
\* tracked set tracked
NewlyTracked(en, tracked) == IF en THEN docVideos \ tracked ELSE {}

AllTargetsTrackedOnly(tracked) == tracked
\* applySpeedToAllVideos: the elements it assigns to
AllTargets(tracked) == tracked \cup docVideos

\* the rates after the elements of S have been assigned speed
Assign(r, S, speed) == [v \in Videos |-> IF v \in S THEN speed ELSE r[v]]
\* the assignments made
Writes(S, speed) == {<<v, speed>> : v \in S}
\* a change of playbackRate queues a ratechange event on the element
Changed(r1, r2) == {v \in Videos : r1[v] # r2[v]}

\* offTracked after a step that leaves isEnabled at en
OffAfter(en) == IF en THEN NotOff ELSE offTracked

----------------------------------------------------------------------------
(* Initial state: a fresh store, a page just loaded, the controller just       *)
(* constructed (init() suspended at its first storage read)                    *)

\* sendResponse({ success: true }), sendResponse({ success: false, error })
Success == [success |-> TRUE, error |-> ""]
Failure(error) == [success |-> FALSE, error |-> error]

\* got before any direct call of the Settings Store
NoCall == [op |-> "none", value |-> "none", threw |-> FALSE, failed |-> FALSE]

\* lastOp tells apart the handlers the properties are about
Observed == {"init", "toggleExtension", "removeContentSpeed", "urlSettle",
             "storeSetDefaultSpeed", "storeSetContentSpeed", "storeRemoveContentSpeed",
             "setContentSpeed", "setSpeed", "adjustSpeed", "getCurrentState",
             "unknownAction", "contextMenuClick", "command", "backgroundMessage",
             "urlTimer", "loadSettingsDone", "rescan", "correction",
             "simpleStorageChanged", "simpleSetSpeed", "simpleToggle",
             "simpleCorrection", "simpleObserver"}
Op(name) == IF name \in Observed THEN name ELSE "other"

\* the simple enforcer as its constructor leaves it
\* (init() suspended at its storage read): enabled is "true", "false" or
\* "undefined"; videos is the WeakMap, giving the originalRate recorded for an
\* element; marked are the elements carrying data-speed-controller and the
\* listeners; timers counts the pending correction timers of each element;
\* changes are the storage change notifications not yet delivered
SimpleConstructed ==
    [phase |-> "constructed", enabled |-> "true",
     defaultSpeed |-> DefaultSpeedValue, currentSpeed |-> InitialSpeed,
     videos |-> [v \in Videos |-> NotStored], marked |-> {},
     timers |-> [v \in Videos |-> 0], changes |-> <<>>]

Init ==
    /\ sync = EmptyMap
    /\ local = EmptyMap
    /\ url = UrlWatch
    /\ docVideos = {}
    /\ rate = [v \in Videos |-> ElementDefaultRate]
    /\ rcQueued = {}
    /\ phase = "constructed"
    /\ videos = {}
    /\ isEnabled = TRUE
    /\ currentSpeed = InitialSpeed
    /\ contentId = NullId
    /\ processingUrls = {}
    /\ videoProcessTimeout = 0
    /\ listening = {}
    /\ corrTimers = [v \in Videos |-> 0]
    /\ lastUrl = url
    /\ navTimers = <<>>
    /\ lastOp = Op("construct")
    /\ wrote = {}
    /\ offTracked = NotOff
    /\ urlSetBy = "load"
    /\ responses = <<>>
    /\ got = NoCall
    /\ tabListens = {}
    /\ activeTabs = <<>>
    /\ sent = <<>>
    /\ caught = FALSE
    /\ uncaught = FALSE
    /\ failedBefore = FALSE
    /\ contextMenus = <<>>
    /\ menuRequests = <<>>
    /\ menuRuns = <<>>
    /\ navRuns = <<>>
    /\ loads = <<>>
    /\ simple = SimpleConstructed
    /\ pending = <<>>

----------------------------------------------------------------------------
(* Enforcer: handlers *)

\* loadSettings() followed by processVideoElements(), reading the
\* synchronized namespace s
LoadAndProcess(s) ==
    LET ls == LoadSettings(s, local, url, contentId, currentSpeed)
        new == NewlyTracked(ls.isEnabled, videos)
    IN  /\ isEnabled' = ls.isEnabled
        /\ contentId' = ls.contentId
        /\ currentSpeed' = ls.currentSpeed
        /\ videos' = videos \cup new
        /\ listening' = listening \cup new
        /\ rate' = Assign(rate, new, ls.currentSpeed)
        /\ rcQueued' = rcQueued \cup Changed(rate, rate')
        /\ wrote' = Writes(new, ls.currentSpeed)
        /\ offTracked' = OffAfter(ls.isEnabled)

\* processVideoElements() alone
ProcessVideoElements ==
    LET new == NewlyTracked(isEnabled, videos)
    IN  /\ videos' = videos \cup new
        /\ listening' = listening \cup new
        /\ rate' = Assign(rate, new, currentSpeed)
        /\ rcQueued' = rcQueued \cup Changed(rate, rate')
        /\ wrote' = Writes(new, currentSpeed)

\* applySpeedToAllVideos(speed)
ApplySpeedToAllVideos(speed) ==
    /\ currentSpeed' = speed
    /\ rate' = Assign(rate, AllTargets(videos), speed)
    /\ rcQueued' = rcQueued \cup Changed(rate, rate')
    /\ wrote' = Writes(AllTargets(videos), speed)

\* init(): loadSettings, setupVideoObserver, processVideoElements, the message
\* listener, setupUrlChangeDetection
InitEnforcer ==
    /\ phase = "constructed"
    /\ phase' = "ready"
    /\ LoadAndProcess(sync)
    /\ lastUrl' = url
    /\ lastOp' = Op("init")
    /\ responses' = <<>>
    /\ UNCHANGED <<got, bgVars, simpleVars, pending, navRuns, loads>>
    /\ UNCHANGED <<sync, local, url, docVideos, processingUrls, videoProcessTimeout,
                   corrTimers, navTimers, urlSetBy>>

\* message setContentSpeed
MsgSetContentSpeed(speed) ==
    /\ phase = "ready"
    /\ local' = SetContentSpeed(local, contentId, speed)
    /\ ApplySpeedToAllVideos(speed)
    /\ lastOp' = Op("setContentSpeed")
    /\ responses' = <<Success>>
    /\ UNCHANGED <<got, bgVars, simpleVars, pending, navRuns, loads>>
    /\ UNCHANGED <<sync, url, docVideos, phase, videos, isEnabled, contentId,
                   processingUrls, videoProcessTimeout, listening, corrTimers,
                   lastUrl, navTimers, offTracked, urlSetBy>>

\* message removeContentSpeed
MsgRemoveContentSpeed ==
    /\ phase = "ready"
    /\ local' = RemoveContentSpeed(local, contentId)
    /\ ApplySpeedToAllVideos(GetDefaultSpeed(sync))
    /\ lastOp' = Op("removeContentSpeed")
    /\ responses' = <<Success>>
    /\ UNCHANGED <<got, bgVars, simpleVars, pending, navRuns, loads>>
    /\ UNCHANGED <<sync, url, docVideos, phase, videos, isEnabled, contentId,
                   processingUrls, videoProcessTimeout, listening, corrTimers,
                   lastUrl, navTimers, offTracked, urlSetBy>>

\* the enabled payloads of toggleExtension: none, true, false
TogglePayloads == {"undefined", "true", "false"}

\* message toggleExtension
MsgToggleExtension(enabled) ==
    /\ phase = "ready"
    /\ LET en == IF enabled # "undefined" THEN enabled = "true" ELSE ~isEnabled
       IN  /\ sync' = SetEnabled(sync, en)
           /\ IF en
              THEN LoadAndProcess(sync')
              ELSE /\ isEnabled' = FALSE
                   /\ ApplySpeedToAllVideos(NormalSpeed)
                   /\ offTracked' = videos
                   /\ UNCHANGED <<videos, listening, contentId>>
    /\ lastOp' = Op("toggleExtension")
    /\ responses' = <<Success>>
    /\ UNCHANGED <<got, bgVars, simpleVars, pending, navRuns, loads>>
    /\ UNCHANGED <<local, url, docVideos, phase, processingUrls, videoProcessTimeout,
                   corrTimers, lastUrl, navTimers, urlSetBy>>

ClampedSpeedNoUpper(speed) == Max2(MinSpeed, speed)
\* Math.max(0.5, Math.min(5.0, ...)) of adjustSpeed and setSpeed
ClampedSpeed(speed) == Max2(MinSpeed, Min2(MaxSpeed, speed))

SetSpeedAsDefault(speed) ==
    IF ~isEnabled
    THEN /\ wrote' = {}
         /\ UNCHANGED <<sync, local, currentSpeed, rate, rcQueued>>
    ELSE /\ sync' = SetDefaultSpeed(sync, ClampedSpeed(speed))
         /\ UNCHANGED local
         /\ ApplySpeedToAllVideos(ClampedSpeed(speed))
\* setSpeed(speed)
SetSpeed(speed) ==
    IF ~isEnabled
    THEN /\ wrote' = {}
         /\ UNCHANGED <<sync, local, currentSpeed, rate, rcQueued>>
    ELSE /\ local' = SetContentSpeed(local, contentId, ClampedSpeed(speed))
         /\ UNCHANGED sync
         /\ ApplySpeedToAllVideos(ClampedSpeed(speed))

\* message setSpeed
MsgSetSpeed(speed) ==
    /\ phase = "ready"
    /\ SetSpeed(speed)
    /\ lastOp' = Op("setSpeed")
    /\ responses' = <<Success>>
    /\ UNCHANGED <<got, bgVars, simpleVars, pending, navRuns, loads>>
    /\ UNCHANGED <<url, docVideos, phase, videos, isEnabled, contentId,
                   processingUrls, videoProcessTimeout, listening, corrTimers,
                   lastUrl, navTimers, offTracked, urlSetBy>>

\* message adjustSpeed
MsgAdjustSpeed(delta) ==
    /\ phase = "ready"
    /\ SetSpeed(ClampedSpeed(currentSpeed + delta))
    /\ lastOp' = Op("adjustSpeed")
    /\ responses' = <<Success>>
    /\ UNCHANGED <<got, bgVars, simpleVars, pending, navRuns, loads>>
    /\ UNCHANGED <<url, docVideos, phase, videos, isEnabled, contentId,
                   processingUrls, videoProcessTimeout, listening, corrTimers,
                   lastUrl, navTimers, offTracked, urlSetBy>>

\* message getCurrentState
MsgGetCurrentState ==
    /\ phase = "ready"
    /\ responses' = <<[success |-> TRUE, error |-> "",
                       state |-> [enabled |-> isEnabled,
                                  currentSpeed |-> currentSpeed,
                                  contentId |-> contentId]]>>
    /\ lastOp' = Op("getCurrentState")
    /\ wrote' = {}
    /\ UNCHANGED <<storeVars, pageVars, enforcerVars, offTracked, urlSetBy, got,
                   bgVars, simpleVars, pending>>

\* action tags of messages that no case of a handleMessage switch matches:
\* a tag of another component, and a message without an action
UnknownActions == {"getTabInfo", "undefined"}

MsgUnknownNoResponse(action) ==
    /\ phase = "ready"
    /\ responses' = <<>>
    /\ lastOp' = Op("unknownAction")
    /\ wrote' = {}
    /\ UNCHANGED <<storeVars, pageVars, enforcerVars, offTracked, urlSetBy, got,
                   bgVars, simpleVars, pending>>
\* a message that falls to the default case of handleMessage
MsgUnknown(action) ==
    /\ phase = "ready"
    /\ responses' = <<Failure("Unknown action")>>
    /\ lastOp' = Op("unknownAction")
    /\ wrote' = {}
    /\ UNCHANGED <<storeVars, pageVars, enforcerVars, offTracked, urlSetBy, got,
                   bgVars, simpleVars, pending>>

\* the debounce timer of the mutation observer fires
RescanTimer ==
    /\ videoProcessTimeout > 0
    /\ videoProcessTimeout' = videoProcessTimeout - 1
    /\ ProcessVideoElements
    /\ lastOp' = Op("rescan")
    /\ responses' = <<>>
    /\ UNCHANGED <<got, bgVars, simpleVars, pending, navRuns, loads>>
    /\ UNCHANGED <<sync, local, url, docVideos, phase, isEnabled, currentSpeed,
                   contentId, processingUrls, corrTimers, lastUrl, navTimers,
                   offTracked, urlSetBy>>

RateChangeEventAlways(v) ==
    /\ v \in rcQueued
    /\ rcQueued' = rcQueued \ {v}
    /\ IF v \in listening
       THEN /\ corrTimers[v] < MaxCorrTimers
            /\ corrTimers' = [corrTimers EXCEPT ![v] = @ + 1]
       ELSE UNCHANGED corrTimers
    /\ lastOp' = Op("ratechange")
    /\ responses' = <<>>
    /\ UNCHANGED <<got, bgVars, simpleVars, pending, navRuns, loads>>
    /\ wrote' = {}
    /\ UNCHANGED <<sync, local, url, docVideos, rate, phase, videos, isEnabled,
                   currentSpeed, contentId, processingUrls, videoProcessTimeout,
                   listening, lastUrl, navTimers, offTracked, urlSetBy>>
\* the ratechange listener of a tracked element runs
RateChangeEvent(v) ==
    /\ v \in rcQueued
    /\ rcQueued' = rcQueued \ {v}
    /\ IF v \in listening /\ rate[v] # currentSpeed
       THEN /\ corrTimers[v] < MaxCorrTimers
            /\ corrTimers' = [corrTimers EXCEPT ![v] = @ + 1]
       ELSE UNCHANGED corrTimers
    /\ lastOp' = Op("ratechange")
    /\ responses' = <<>>
    /\ UNCHANGED <<got, bgVars, simpleVars, pending, navRuns, loads>>
    /\ wrote' = {}
    /\ UNCHANGED <<sync, local, url, docVideos, rate, phase, videos, isEnabled,
                   currentSpeed, contentId, processingUrls, videoProcessTimeout,
                   listening, lastUrl, navTimers, offTracked, urlSetBy>>

\* a correction timer (setTimeout 10 of the ratechange listener) fires
CorrectionTimer(v) ==
    /\ corrTimers[v] > 0
    /\ corrTimers' = [corrTimers EXCEPT ![v] = @ - 1]
    /\ rate' = Assign(rate, {v}, currentSpeed)
    /\ rcQueued' = rcQueued \cup Changed(rate, rate')
    /\ wrote' = Writes({v}, currentSpeed)
    /\ lastOp' = Op("correction")
    /\ responses' = <<>>
    /\ UNCHANGED <<got, bgVars, simpleVars, pending, navRuns, loads>>
    /\ UNCHANGED <<sync, local, url, docVideos, phase, videos, isEnabled,
                   currentSpeed, contentId, processingUrls, videoProcessTimeout,
                   listening, lastUrl, navTimers, offTracked, urlSetBy>>

\* the loadedmetadata listener of a tracked element runs
LoadedMetadata(v) ==
    /\ v \in listening
    /\ rate' = Assign(rate, {v}, currentSpeed)
    /\ rcQueued' = rcQueued \cup Changed(rate, rate')
    /\ wrote' = Writes({v}, currentSpeed)
    /\ lastOp' = Op("loadedmetadata")
    /\ responses' = <<>>
    /\ UNCHANGED <<got, bgVars, simpleVars, pending, navRuns, loads>>
    /\ UNCHANGED <<sync, local, url, docVideos, phase, videos, isEnabled,
                   currentSpeed, contentId, processingUrls, videoProcessTimeout,
                   listening, corrTimers, lastUrl, navTimers, offTracked, urlSetBy>>

\* seq without its element at position i
Without(seq, i) == SubSeq(seq, 1, i - 1) \o SubSeq(seq, i + 1, Len(seq))

UrlChangeStartsTwice(oldUrl, newUrl) == oldUrl # newUrl
\* handleUrlChange(oldUrl, newUrl): do its two guards let it start
UrlChangeStarts(oldUrl, newUrl) == oldUrl # newUrl /\ newUrl \notin processingUrls

\* a setTimeout(.., 0) callback of the URL change detection runs
UrlTimer ==
    /\ navTimers # <<>>
    /\ navTimers' = Tail(navTimers)
    /\ IF UrlChangeStarts(lastUrl, url)
       THEN /\ processingUrls' = processingUrls \cup {url}
            /\ navRuns' = Append(navRuns, url)
            /\ videos' = {}
       ELSE UNCHANGED <<processingUrls, navRuns, videos>>
    /\ lastUrl' = IF Head(navTimers) = "popstate" THEN url ELSE lastUrl
    /\ lastOp' = Op("urlTimer")
    /\ responses' = <<>>
    /\ UNCHANGED <<got, bgVars, simpleVars, pending, loads>>
    /\ wrote' = {}
    /\ UNCHANGED <<sync, local, url, docVideos, rate, rcQueued, phase, isEnabled,
                   currentSpeed, contentId, videoProcessTimeout, listening,
                   corrTimers, offTracked, urlSetBy>>

\* handleUrlChange(oldUrl, newUrl) after its settle delay
UrlSettle(newUrl) ==
    /\ \E i \in 1..Len(navRuns) : navRuns[i] = newUrl
    /\ navRuns' = Without(navRuns, LeftMost({i \in 1..Len(navRuns) : navRuns[i] = newUrl}))
    /\ processingUrls' = processingUrls \ {newUrl}
    /\ LoadAndProcess(sync)
    /\ lastOp' = Op("urlSettle")
    /\ responses' = <<>>
    /\ UNCHANGED <<got, bgVars, simpleVars, pending, loads>>
    /\ UNCHANGED <<sync, local, url, docVideos, phase, videoProcessTimeout,
                   corrTimers, lastUrl, navTimers, urlSetBy>>

----------------------------------------------------------------------------
(* Enforcer: loadSettings with its storage reads as separate steps *)

\* a run of loadSettings and of the handler that called it: by "nav"
\* (handleUrlChange for newUrl) or "toggle" (toggleExtension, which first
\* stores enabled), suspended at the storage call at, with the content id its
\* getContentSpeed call was given
LoadRun(by, newUrl, at, enabled) ==
    [by |-> by, newUrl |-> newUrl, at |-> at, enabled |-> enabled, id |-> NullId]

\* handleUrlChange(oldUrl, newUrl): the settle delay is over, loadSettings is
\* called and suspends at getEnabled
UrlSettleStarts(newUrl) ==
    /\ \E i \in 1..Len(navRuns) : navRuns[i] = newUrl
    /\ Len(loads) < MaxLoads
    /\ navRuns' = Without(navRuns, LeftMost({i \in 1..Len(navRuns) : navRuns[i] = newUrl}))
    /\ loads' = Append(loads, LoadRun("nav", newUrl, "getEnabled", TRUE))
    /\ lastOp' = Op("urlSettleStarts")
    /\ responses' = <<>>
    /\ wrote' = {}
    /\ UNCHANGED <<got, bgVars, simpleVars, pending>>
    /\ UNCHANGED <<sync, local, url, docVideos, rate, rcQueued, phase, videos,
                   isEnabled, currentSpeed, contentId, processingUrls,
                   videoProcessTimeout, listening, corrTimers, lastUrl, navTimers,
                   offTracked, urlSetBy>>

\* message toggleExtension: isEnabled is assigned, setEnabled is called and
\* the handler suspends
ToggleExtensionStarts(enabled) ==
    /\ phase = "ready"
    /\ Len(loads) < MaxLoads
    /\ LET en == IF enabled # "undefined" THEN enabled = "true" ELSE ~isEnabled
       IN  /\ isEnabled' = en
           /\ loads' = Append(loads, LoadRun("toggle", url, "setEnabled", en))
    /\ lastOp' = Op("toggleExtensionStarts")
    /\ responses' = <<>>
    /\ wrote' = {}
    /\ UNCHANGED <<got, bgVars, simpleVars, pending>>
    /\ UNCHANGED <<sync, local, url, docVideos, rate, rcQueued, phase, videos,
                   currentSpeed, contentId, processingUrls, videoProcessTimeout,
                   listening, corrTimers, lastUrl, navTimers, navRuns, offTracked,
                   urlSetBy>>

\* the storage call a run waits for completes and the run continues to its
\* next storage call (at) or to its end (at "done"): what it has assigned by
\* then, and whether it took the branch of toggleExtension that resets the
\* videos
StorageCallCompletes(run) ==
    LET same == [sync |-> sync, isEnabled |-> isEnabled, contentId |-> contentId,
                 currentSpeed |-> currentSpeed, at |-> "done", id |-> run.id,
                 reset |-> FALSE]
    IN  CASE run.at = "setEnabled" ->
               IF isEnabled
               THEN [same EXCEPT !.sync = SetEnabled(sync, run.enabled),
                                 !.at = "getEnabled"]
               ELSE [same EXCEPT !.sync = SetEnabled(sync, run.enabled),
                                 !.currentSpeed = NormalSpeed, !.reset = TRUE]
          [] run.at = "getEnabled" ->
               IF ~GetEnabled(sync)
               THEN [same EXCEPT !.isEnabled = FALSE]
               ELSE [same EXCEPT !.isEnabled = TRUE,
                                 !.contentId = GenerateContentId(url),
                                 !.id = GenerateContentId(url),
                                 !.at = "getContentSpeed"]
          [] run.at = "getContentSpeed" ->
               IF GetContentSpeed(local, run.id) = NullSpeed
               THEN [same EXCEPT !.at = "getDefaultSpeed"]
               ELSE [same EXCEPT !.currentSpeed = GetContentSpeed(local, run.id)]
          [] run.at = "getDefaultSpeed" ->
               [same EXCEPT !.currentSpeed = GetDefaultSpeed(sync)]

\* a storage call of the run at position i completes; at the end of
\* loadSettings its caller goes on: processVideoElements, and handleUrlChange
\* takes newUrl out of the pending set
LoadStep(i) ==
    /\ i \in 1..Len(loads)
    /\ LET run == loads[i]
           o == StorageCallCompletes(run)
           done == o.at = "done"
           new == IF done /\ ~o.reset THEN NewlyTracked(o.isEnabled, videos) ELSE {}
           targets == IF o.reset THEN AllTargets(videos) ELSE new
       IN  /\ sync' = o.sync
           /\ isEnabled' = o.isEnabled
           /\ contentId' = o.contentId
           /\ currentSpeed' = o.currentSpeed
           /\ loads' = IF done THEN Without(loads, i)
                       ELSE [loads EXCEPT ![i] = [run EXCEPT !.at = o.at, !.id = o.id]]
           /\ videos' = videos \cup new
           /\ listening' = listening \cup new
           /\ rate' = Assign(rate, targets, o.currentSpeed)
           /\ rcQueued' = rcQueued \cup Changed(rate, rate')
           /\ wrote' = Writes(targets, o.currentSpeed)
           /\ processingUrls' = IF done /\ run.by = "nav"
                                THEN processingUrls \ {run.newUrl} ELSE processingUrls
           /\ offTracked' = IF o.reset THEN videos
                            ELSE IF done THEN OffAfter(o.isEnabled) ELSE offTracked
           /\ responses' = IF done /\ run.by = "toggle" THEN <<Success>> ELSE <<>>
           /\ lastOp' = Op(IF done THEN "loadSettingsDone" ELSE "storageCall")
    /\ UNCHANGED <<got, bgVars, simpleVars, pending>>
    /\ UNCHANGED <<local, url, docVideos, phase, videoProcessTimeout, corrTimers,
                   lastUrl, navTimers, navRuns, urlSetBy>>

----------------------------------------------------------------------------
(* The page *)

DebouncedNoClear(timers) == timers + 1
\* clearTimeout(this.videoProcessTimeout) and setTimeout(.., 100): the pending
\* debounce timers afterwards, timers of them pending before (the field holds
\* the newest)
Debounced(timers) == Max2(timers - 1, 0) + 1

\* the page attaches a video element (the elements are numbered in the order
\* of their insertion); the mutation observer (once set up) restarts the
\* rescan debounce timer
PageAddVideo(v) ==
    /\ v \notin docVideos
    /\ \A w \in Videos : w < v => w \in docVideos
    /\ docVideos' = docVideos \cup {v}
    /\ videoProcessTimeout' = IF phase = "ready" THEN Debounced(videoProcessTimeout)
                              ELSE videoProcessTimeout
    /\ lastOp' = Op("mutation")
    /\ responses' = <<>>
    /\ UNCHANGED <<got, bgVars, simpleVars, pending, navRuns, loads>>
    /\ wrote' = {}
    /\ UNCHANGED <<sync, local, url, rate, rcQueued, phase, videos, isEnabled,
                   currentSpeed, contentId, processingUrls, listening, corrTimers,
                   lastUrl, navTimers, offTracked, urlSetBy>>

\* the page detaches a video element from the document (the mutation observer
\* looks at added nodes only); the element itself lives on
PageRemoveVideo(v) ==
    /\ v \in docVideos
    /\ docVideos' = docVideos \ {v}
    /\ lastOp' = Op("mutation")
    /\ responses' = <<>>
    /\ UNCHANGED <<got, bgVars, simpleVars, pending, navRuns, loads>>
    /\ wrote' = {}
    /\ UNCHANGED <<sync, local, url, rate, rcQueued, phase, videos, isEnabled,
                   currentSpeed, contentId, processingUrls, videoProcessTimeout,
                   listening, corrTimers, lastUrl, navTimers, offTracked, urlSetBy>>

\* the page (or the user, or the media load) changes an element's playbackRate
PageSetRate(v, r) ==
    /\ v \in docVideos
    /\ rate[v] # r
    /\ rate' = [rate EXCEPT ![v] = r]
    /\ rcQueued' = rcQueued \cup {v}
    /\ lastOp' = Op("page")
    /\ responses' = <<>>
    /\ UNCHANGED <<got, bgVars, simpleVars, pending, navRuns, loads>>
    /\ wrote' = {}
    /\ UNCHANGED <<sync, local, url, docVideos, phase, videos, isEnabled,
                   currentSpeed, contentId, processingUrls, videoProcessTimeout,
                   listening, corrTimers, lastUrl, navTimers, offTracked, urlSetBy>>

\* history.pushState / history.replaceState as overridden by
\* setupUrlChangeDetection (the original function until then)
HistoryCall(u) ==
    /\ url' = u
    /\ urlSetBy' = "history"
    /\ IF phase = "ready"
       THEN /\ Len(navTimers) < MaxNavTimers
            /\ navTimers' = Append(navTimers, "history")
            /\ lastUrl' = u
       ELSE UNCHANGED <<navTimers, lastUrl>>
    /\ lastOp' = Op("page")
    /\ responses' = <<>>
    /\ UNCHANGED <<got, bgVars, simpleVars, pending, navRuns, loads>>
    /\ wrote' = {}
    /\ UNCHANGED <<sync, local, docVideos, rate, rcQueued, phase, videos, isEnabled,
                   currentSpeed, contentId, processingUrls, videoProcessTimeout,
                   listening, corrTimers, offTracked>>

PushState(u) == HistoryCall(u)
ReplaceState(u) == HistoryCall(u)

\* back/forward navigation: the browser changes the URL and fires popstate
PopState(u) ==
    /\ u # url
    /\ url' = u
    /\ urlSetBy' = "popstate"
    /\ IF phase = "ready"
       THEN /\ Len(navTimers) < MaxNavTimers
            /\ navTimers' = Append(navTimers, "popstate")
       ELSE UNCHANGED navTimers
    /\ lastOp' = Op("page")
    /\ responses' = <<>>
    /\ UNCHANGED <<got, bgVars, simpleVars, pending, navRuns, loads>>
    /\ wrote' = {}
    /\ UNCHANGED <<sync, local, docVideos, rate, rcQueued, phase, videos, isEnabled,
                   currentSpeed, contentId, processingUrls, videoProcessTimeout,
                   listening, corrTimers, lastUrl, offTracked>>

----------------------------------------------------------------------------
(* Other contexts (popup, other tabs) calling the Settings Store *)

StoreStep(name) ==
    /\ lastOp' = Op(name)
    /\ responses' = <<>>
    /\ UNCHANGED <<got, bgVars, simpleVars, pending, navRuns, loads>>
    /\ wrote' = {}
    /\ UNCHANGED <<pageVars, enforcerVars, offTracked, urlSetBy>>

StoreSetDefaultSpeed(speed) ==
    /\ sync' = SetDefaultSpeed(sync, speed)
    /\ UNCHANGED local
    /\ StoreStep("storeSetDefaultSpeed")

StoreSetEnabled(enabled) ==
    /\ sync' = SetEnabled(sync, enabled)
    /\ UNCHANGED local
    /\ StoreStep("storeSetEnabled")

StoreSetContentSpeed(id, speed) ==
    /\ local' = SetContentSpeed(local, id, speed)
    /\ UNCHANGED sync
    /\ StoreStep("storeSetContentSpeed")

StoreRemoveContentSpeed(id) ==
    /\ local' = RemoveContentSpeed(local, id)
    /\ UNCHANGED sync
    /\ StoreStep("storeRemoveContentSpeed")

\* clearAll: chrome.storage.sync.clear() and chrome.storage.local.clear()
StoreClearAll ==
    /\ sync' = EmptyMap
    /\ local' = EmptyMap
    /\ StoreStep("storeClearAll")

----------------------------------------------------------------------------
(* The content id resolver called on its own *)

\* hostnames: two of YouTube, Netflix, Twitch, Vimeo, and one of no known site
ResolverHosts ==
    { <<"www", ".", "youtube", ".", "com">>, <<"youtu", ".", "be">>,
      <<"www", ".", "netflix", ".", "com">>, <<"www", ".", "twitch", ".", "tv">>,
      <<"vimeo", ".", "com">>, <<"example", ".", "com">> }

\* pathnames: every shape a pattern of the resolver tells apart
ResolverPaths ==
    { <<"/">>, <<"/", "watch">>,
      <<"/", "channel", "/", "UC123">>, <<"/", "channel", "/", "UC123", "/", "videos">>,
      <<"/", "channel", "/">>,
      <<"/", "@", "handle">>, <<"/", "@", "handle", "/", "videos">>, <<"/", "@">>,
      <<"/", "title", "/", "70143836">>, <<"/", "title", "/", "about">>,
      <<"/", "somestreamer">>, <<"/", "somestreamer", "/", "videos">>,
      <<"/", "directory">>, <<"/", "directory", "/", "game">>,
      <<"/", "foo", "/", "bar">>, <<"/", "123">>,
      <<"/", "channels", "/", "staff", "/", "123">> }

\* v query parameters: none, one
ResolverQueries == {<<>>, <<"abc123">>}

\* a string that new URL() rejects
NotAUrl ==
    [href |-> <<"not a url">>, valid |-> FALSE, hostname |-> <<>>, pathname |-> <<>>,
     v |-> <<>>]

ResolverUrls ==
    {MkUrl(h, p, q) : h \in ResolverHosts, p \in ResolverPaths, q \in ResolverQueries}
        \cup {NotAUrl}

\* generateContentId(url) called with u
CallGenerateContentId(u) ==
    /\ got' = [op |-> "generateContentId", arg |-> u, value |-> GenerateContentId(u),
               threw |-> FALSE, failed |-> ~u.valid]
    /\ lastOp' = Op("generateContentId")
    /\ wrote' = {}
    /\ responses' = <<>>
    /\ UNCHANGED <<storeVars, pageVars, enforcerVars, offTracked, urlSetBy, bgVars, simpleVars, pending>>

----------------------------------------------------------------------------
(* The Settings Store over a host storage API whose calls may reject *)

\* which chrome.storage call of a method rejects: none, its first, its second
\* (a method that makes one call has no second)
ApiFailures == {"none", "first", "second"}

\* speed arguments of the calls made while the API may fail
FailSpeedInputs == {15, 60}

\* a method's try block with its catch: the method returns normally whether
\* or not a call rejected
MethodOutcome(failed) == [failed |-> failed, threw |-> FALSE]

\* a getter returns: value from the store, or fallback after a rejection
Returned(name, failed, value, fallback) ==
    [op |-> name, value |-> IF failed THEN fallback ELSE value,
     threw |-> MethodOutcome(failed).threw, failed |-> MethodOutcome(failed).failed]

StoreCall(name, failed, value, fallback) ==
    /\ got' = Returned(name, failed, value, fallback)
    /\ lastOp' = Op(name)
    /\ wrote' = {}
    /\ responses' = <<>>
    /\ UNCHANGED <<pageVars, enforcerVars, offTracked, urlSetBy, bgVars, simpleVars, pending>>

CallGetDefaultSpeed(failed) ==
    /\ StoreCall("getDefaultSpeed", failed, GetDefaultSpeed(sync), DefaultSpeedValue)
    /\ UNCHANGED storeVars

CallGetEnabled(failed) ==
    /\ StoreCall("getEnabled", failed, GetEnabled(sync), TRUE)
    /\ UNCHANGED storeVars

CallGetContentSpeed(id, failed) ==
    /\ StoreCall("getContentSpeed", failed, GetContentSpeed(local, id), NullSpeed)
    /\ UNCHANGED storeVars

CallGetAllContentSpeeds(failed) ==
    /\ StoreCall("getAllContentSpeeds", failed, GetAllContentSpeeds(local), EmptyMap)
    /\ UNCHANGED storeVars

CallSetDefaultSpeed(speed, failed) ==
    /\ StoreCall("setDefaultSpeed", failed, "void", "void")
    /\ sync' = IF failed THEN sync ELSE SetDefaultSpeed(sync, speed)
    /\ UNCHANGED local

CallSetEnabled(enabled, failed) ==
    /\ StoreCall("setEnabled", failed, "void", "void")
    /\ sync' = IF failed THEN sync ELSE SetEnabled(sync, enabled)
    /\ UNCHANGED local

\* setContentSpeed: its get, then its set
CallSetContentSpeed(id, speed, failure) ==
    /\ StoreCall("setContentSpeed", failure # "none", "void", "void")
    /\ local' = IF failure = "none" THEN SetContentSpeed(local, id, speed) ELSE local
    /\ UNCHANGED sync

\* removeContentSpeed: its get, then its set
CallRemoveContentSpeed(id, failure) ==
    /\ StoreCall("removeContentSpeed", failure # "none", "void", "void")
    /\ local' = IF failure = "none" THEN RemoveContentSpeed(local, id) ELSE local
    /\ UNCHANGED sync

\* clearAll: chrome.storage.sync.clear(), then chrome.storage.local.clear()
CallClearAll(failure) ==
    /\ StoreCall("clearAll", failure # "none", "void", "void")
    /\ sync' = IF failure = "first" THEN sync ELSE EmptyMap
    /\ local' = IF failure = "none" THEN EmptyMap ELSE local

----------------------------------------------------------------------------
(* The background service worker *)

Tabs == 1..NumTabs
\* an absent tab: the tab argument of a click outside any tab, a tabId that a
\* request does not carry
NoTab == 0

\* The speeds of the background's messages count hundredths (0.75 is 75): the
\* presets have two decimals.  The background does no arithmetic on them.
CONTEXT_MENU_IDS ==
    [MAIN |-> "video-speed-controller-main",
     SPEED_05 |-> "video-speed-controller-speed-0.5",
     SPEED_075 |-> "video-speed-controller-speed-0.75",
     SPEED_10 |-> "video-speed-controller-speed-1.0",
     SPEED_125 |-> "video-speed-controller-speed-1.25",
     SPEED_15 |-> "video-speed-controller-speed-1.5",
     SPEED_175 |-> "video-speed-controller-speed-1.75",
     SPEED_20 |-> "video-speed-controller-speed-2.0",
     SPEED_25 |-> "video-speed-controller-speed-2.5",
     SPEED_30 |-> "video-speed-controller-speed-3.0",
     SPEED_40 |-> "video-speed-controller-speed-4.0",
     SPEED_50 |-> "video-speed-controller-speed-5.0",
     SEPARATOR |-> "video-speed-controller-separator",
     REMOVE |-> "video-speed-controller-remove"]

SPEED_OPTIONS ==
    << [id |-> CONTEXT_MENU_IDS.SPEED_05, speed |-> 50, title |-> "0.5x"],
       [id |-> CONTEXT_MENU_IDS.SPEED_075, speed |-> 75, title |-> "0.75x"],
       [id |-> CONTEXT_MENU_IDS.SPEED_10, speed |-> 100, title |-> "1.0x (Normal)"],
       [id |-> CONTEXT_MENU_IDS.SPEED_125, speed |-> 125, title |-> "1.25x"],
       [id |-> CONTEXT_MENU_IDS.SPEED_15, speed |-> 150, title |-> "1.5x"],
       [id |-> CONTEXT_MENU_IDS.SPEED_175, speed |-> 175, title |-> "1.75x"],
       [id |-> CONTEXT_MENU_IDS.SPEED_20, speed |-> 200, title |-> "2.0x"],
       [id |-> CONTEXT_MENU_IDS.SPEED_25, speed |-> 250, title |-> "2.5x"],
       [id |-> CONTEXT_MENU_IDS.SPEED_30, speed |-> 300, title |-> "3.0x"],
       [id |-> CONTEXT_MENU_IDS.SPEED_40, speed |-> 400, title |-> "4.0x"],
       [id |-> CONTEXT_MENU_IDS.SPEED_50, speed |-> 500, title |-> "5.0x"] >>

\* the menuItemId of a click: every entry of the menu, and an id that is not
\* the extension's
MenuItemIds ==
    {CONTEXT_MENU_IDS[k] : k \in DOMAIN CONTEXT_MENU_IDS} \cup {"another-extension-item"}

\* the commands the browser dispatches: the three of the manifest, and one the
\* switch does not know
Commands == {"toggle-extension", "increase-speed", "decrease-speed", "unknown-command"}

\* a try block whose catch logs the error: how the handler ends when its body
\* failed, or did not
HandlerOutcomeRethrow(failed) == [logged |-> failed, thrown |-> failed]
HandlerOutcome(failed) == [logged |-> failed, thrown |-> FALSE]

\* chrome.tabs.sendMessage(tab, message) rejects when no listener in that tab
\* receives the message
Delivers(tab) == tab \in tabListens

\* what a run of a background handler leaves: the sendMessage calls it made,
\* whether its body failed, the responses it sent
BackgroundRun(name, calls, failed, resps) ==
    /\ sent' = calls
    /\ caught' = HandlerOutcome(failed).logged
    /\ uncaught' = HandlerOutcome(failed).thrown
    /\ failedBefore' = (failedBefore \/ caught)
    /\ responses' = resps
    /\ lastOp' = Op(name)
    /\ wrote' = {}
    /\ UNCHANGED <<storeVars, pageVars, enforcerVars, offTracked, urlSetBy, got,
                   tabVars, menuVars, simpleVars, pending>>

\* SPEED_OPTIONS.find(option => option.id === menuId): its index, 0 for none
SpeedOptionOf ==
    [menuId \in MenuItemIds |->
        LeftMost({i \in 1..Len(SPEED_OPTIONS) : SPEED_OPTIONS[i].id = menuId})]

FindSpeedOption(menuId) == SpeedOptionOf[menuId]

ClickMessageAlways(menuId) ==
    IF FindSpeedOption(menuId) # 0
    THEN <<[action |-> "setContentSpeed",
            speed |-> SPEED_OPTIONS[FindSpeedOption(menuId)].speed]>>
    ELSE <<[action |-> "removeContentSpeed"]>>
\* handleContextMenuClick: the message it has for the tab, if any
ClickMessage(menuId) ==
    IF FindSpeedOption(menuId) # 0
    THEN <<[action |-> "setContentSpeed",
            speed |-> SPEED_OPTIONS[FindSpeedOption(menuId)].speed]>>
    ELSE IF menuId = CONTEXT_MENU_IDS.REMOVE
    THEN <<[action |-> "removeContentSpeed"]>>
    ELSE <<>>

\* the sendMessage calls that send messages msgs to tab (tab.id of an absent
\* tab throws before any call)
CallsTo(tab, msgs) ==
    IF tab = NoTab THEN <<>>
    ELSE [i \in 1..Len(msgs) |-> [tabId |-> tab, message |-> msgs[i]]]

\* handleContextMenuClick(info, tab)
HandleContextMenuClick(menuItemId, tab) ==
    LET msgs == ClickMessage(menuItemId)
    IN  BackgroundRun("contextMenuClick", CallsTo(tab, msgs),
                      msgs # <<>> /\ ~Delivers(tab), <<>>)

CommandMessageSwapped(command) ==
    IF command = "toggle-extension" THEN <<[action |-> "toggleExtension"]>>
    ELSE IF command = "increase-speed" THEN <<[action |-> "adjustSpeed", delta |-> -1]>>
    ELSE IF command = "decrease-speed" THEN <<[action |-> "adjustSpeed", delta |-> 1]>>
    ELSE <<>>
\* handleCommand: the message of a command, if any (delta counts tenths)
CommandMessage(command) ==
    IF command = "toggle-extension" THEN <<[action |-> "toggleExtension"]>>
    ELSE IF command = "increase-speed" THEN <<[action |-> "adjustSpeed", delta |-> 1]>>
    ELSE IF command = "decrease-speed" THEN <<[action |-> "adjustSpeed", delta |-> -1]>>
    ELSE <<>>

\* handleCommand(command)
HandleCommand(command) ==
    IF activeTabs = <<>>
    THEN BackgroundRun("command", <<>>, FALSE, <<>>)
    ELSE LET activeTab == activeTabs[1]
             msgs == CommandMessage(command)
         IN  BackgroundRun("command", CallsTo(activeTab, msgs),
                           msgs # <<>> /\ ~Delivers(activeTab), <<>>)

\* the tabAction payloads of executeInTab requests (NoMessage: none carried)
NoMessage == [action |-> "none"]
TabActions == {[action |-> "toggleExtension"], [action |-> "getCurrentState"]}

\* action tags that no case of the background's switch matches: a tag of the
\* enforcer, and a message without an action
BackgroundUnknownActions == {"setSpeed", "undefined"}

\* the requests the background's runtime.onMessage listener receives
BackgroundMessages ==
    [action : {"getTabInfo"} \cup BackgroundUnknownActions,
     tabId : {NoTab}, tabAction : {NoMessage}]
    \cup [action : {"executeInTab"}, tabId : Tabs \cup {NoTab},
          tabAction : TabActions \cup {NoMessage}]

BackgroundHandleMessageNoCatch(message) ==
    IF message.action = "getTabInfo"
    THEN BackgroundRun("backgroundMessage", <<>>, FALSE,
             <<[success |-> TRUE, error |-> "",
                tab |-> IF activeTabs = <<>> THEN NoTab ELSE activeTabs[1]]>>)
    ELSE IF message.action = "executeInTab"
    THEN IF message.tabId # NoTab /\ message.tabAction # NoMessage
         THEN BackgroundRun("backgroundMessage",
                  CallsTo(message.tabId, <<message.tabAction>>),
                  ~Delivers(message.tabId), <<Success>>)
         ELSE BackgroundRun("backgroundMessage", <<>>, FALSE,
                  <<Failure("Missing tabId or tabAction")>>)
    ELSE BackgroundRun("backgroundMessage", <<>>, FALSE,
             <<Failure("Unknown action")>>)

\* handleMessage(message, sender, sendResponse) of the background
BackgroundHandleMessage(message) ==
    IF message.action = "getTabInfo"
    THEN BackgroundRun("backgroundMessage", <<>>, FALSE,
             <<[success |-> TRUE, error |-> "",
                tab |-> IF activeTabs = <<>> THEN NoTab ELSE activeTabs[1]]>>)
    ELSE IF message.action = "executeInTab"
    THEN IF message.tabId # NoTab /\ message.tabAction # NoMessage
         THEN BackgroundRun("backgroundMessage",
                  CallsTo(message.tabId, <<message.tabAction>>),
                  ~Delivers(message.tabId),
                  IF Delivers(message.tabId) THEN <<Success>>
                  ELSE <<Failure("Could not establish connection")>>)
         ELSE BackgroundRun("backgroundMessage", <<>>, FALSE,
                  <<Failure("Missing tabId or tabAction")>>)
    ELSE BackgroundRun("backgroundMessage", <<>>, FALSE,
             <<Failure("Unknown action")>>)

\* the browser: a tab's content script registers its message listener, a tab
\* loses it (closed, or at a page without content scripts), another tab or
\* none becomes the active tab of the current window
TabStep ==
    /\ lastOp' = Op("browser")
    /\ wrote' = {}
    /\ responses' = <<>>
    /\ UNCHANGED <<storeVars, pageVars, enforcerVars, offTracked, urlSetBy, got,
                   sent, caught, uncaught, failedBefore, menuVars, simpleVars, pending>>

TabListenerAdded(tab) ==
    /\ tab \notin tabListens
    /\ tabListens' = tabListens \cup {tab}
    /\ UNCHANGED activeTabs
    /\ TabStep

TabListenerGone(tab) ==
    /\ tab \in tabListens
    /\ tabListens' = tabListens \ {tab}
    /\ UNCHANGED activeTabs
    /\ TabStep

TabActivated(tabs) ==
    /\ tabs # activeTabs
    /\ activeTabs' = tabs
    /\ UNCHANGED tabListens
    /\ TabStep

----------------------------------------------------------------------------
(* The background service worker: registration of the context menu *)

\* the entry a chrome.contextMenus.create call describes (parentId "" for an
\* entry at the top)
MenuItem(id, parentId, type) == [id |-> id, parentId |-> parentId, type |-> type]

\* the create calls of createContextMenus, in order: the parent, one child per
\* speed option, the separator, the remove entry
CreateCalls ==
    <<MenuItem(CONTEXT_MENU_IDS.MAIN, "", "normal")>>
    \o [i \in 1..Len(SPEED_OPTIONS) |->
           MenuItem(SPEED_OPTIONS[i].id, CONTEXT_MENU_IDS.MAIN, "normal")]
    \o <<MenuItem(CONTEXT_MENU_IDS.SEPARATOR, CONTEXT_MENU_IDS.MAIN, "separator"),
         MenuItem(CONTEXT_MENU_IDS.REMOVE, CONTEXT_MENU_IDS.MAIN, "normal")>>

\* chrome.contextMenus.create as the browser carries it out: an entry whose id
\* is registered already, or whose parent is not, is refused (runtime.lastError)
ContextMenusCreate(menu, item) ==
    IF \/ \E i \in 1..Len(menu) : menu[i].id = item.id
       \/ item.parentId # "" /\ ~\E i \in 1..Len(menu) : menu[i].id = item.parentId
    THEN menu
    ELSE Append(menu, item)

\* the reasons of runtime.onInstalled
InstallReasons == {"install", "update", "chrome_update"}

\* a step of the menu registration
MenuStep(name) ==
    /\ lastOp' = Op(name)
    /\ wrote' = {}
    /\ responses' = <<>>
    /\ UNCHANGED <<storeVars, pageVars, enforcerVars, offTracked, urlSetBy, got,
                   tabVars, sent, caught, uncaught, failedBefore, simpleVars, pending>>

\* did a handler start while an earlier one had not returned (kept for the
\* properties)
Overlaps == \E run \in 1..Len(menuRuns) : menuRuns[run].at # "done"

\* createContextMenus() up to its await: removeAll is called, the run waits
CreateContextMenus(event) ==
    /\ menuRuns' = Append(menuRuns, [event |-> event, at |-> "removeAll",
                                     overlaps |-> Overlaps])
    /\ menuRequests' = Append(menuRequests,
                              [call |-> "removeAll", run |-> Len(menuRuns) + 1])
    /\ UNCHANGED contextMenus

\* a handler that returns without calling createContextMenus
NoContextMenus(event) ==
    /\ menuRuns' = Append(menuRuns, [event |-> event, at |-> "done",
                                     overlaps |-> Overlaps])
    /\ UNCHANGED <<contextMenus, menuRequests>>

\* runtime.onStartup: initializeExtension()
InitializeExtension ==
    /\ Len(menuRuns) < MaxMenuRuns
    /\ CreateContextMenus("startup")
    /\ MenuStep("startup")

HandleInstalledInstallOnly(reason) ==
    /\ Len(menuRuns) < MaxMenuRuns
    /\ IF reason = "install"
       THEN CreateContextMenus(reason)
       ELSE NoContextMenus(reason)
    /\ MenuStep("installed")
\* runtime.onInstalled: handleInstalled(details)
HandleInstalled(reason) ==
    /\ Len(menuRuns) < MaxMenuRuns
    /\ IF reason = "install"
       THEN CreateContextMenus(reason)
       ELSE IF reason = "update"
       THEN CreateContextMenus(reason)
       ELSE NoContextMenus(reason)
    /\ MenuStep("installed")

\* the browser carries out the oldest call: removeAll empties the registry and
\* resolves the promise the run awaits, create registers an entry
BrowserMenuCall ==
    /\ menuRequests # <<>>
    /\ menuRequests' = Tail(menuRequests)
    /\ LET request == Head(menuRequests)
       IN  IF request.call = "removeAll"
           THEN /\ contextMenus' = <<>>
                /\ menuRuns' = [menuRuns EXCEPT ![request.run].at = "resolved"]
           ELSE /\ contextMenus' = ContextMenusCreate(contextMenus, request.item)
                /\ UNCHANGED menuRuns
    /\ MenuStep("browser")

\* createContextMenus() after its await: every create call, then the handler
\* returns
CreateContextMenusResumes(run) ==
    /\ run \in 1..Len(menuRuns)
    /\ menuRuns[run].at = "resolved"
    /\ menuRuns' = [menuRuns EXCEPT ![run].at = "done"]
    /\ menuRequests' = menuRequests
                       \o [i \in 1..Len(CreateCalls) |->
                              [call |-> "create", item |-> CreateCalls[i]]]
    /\ UNCHANGED contextMenus
    /\ MenuStep("createContextMenus")

----------------------------------------------------------------------------
(* Specification *)

\* The enforcer on one page: every message, the page's video elements and
\* their events, and the popup writing the synchronized namespace.
Next ==
    \/ InitEnforcer
    \/ \E speed \in SpeedInputs : MsgSetContentSpeed(speed)
    \/ MsgRemoveContentSpeed
    \/ \E enabled \in TogglePayloads : MsgToggleExtension(enabled)
    \/ \E speed \in SpeedInputs : MsgSetSpeed(speed)
    \/ \E delta \in Deltas : MsgAdjustSpeed(delta)
    \/ MsgGetCurrentState
    \/ \E action \in UnknownActions : MsgUnknown(action)
    \/ RescanTimer
    \/ \E v \in Videos : RateChangeEvent(v)
    \/ \E v \in Videos : CorrectionTimer(v)
    \/ \E v \in Videos : LoadedMetadata(v)
    \/ \E v \in Videos : PageAddVideo(v)
    \/ \E v \in Videos, r \in PageRates : PageSetRate(v, r)
    \/ \E speed \in DefaultInputs : StoreSetDefaultSpeed(speed)
    \/ \E enabled \in BOOLEAN : StoreSetEnabled(enabled)

Spec == Init /\ [][Next]_vars

\* The enforcer on a single-page application: navigation through the history
\* API and back/forward, the rescan, the toggle, and other contexts writing
\* the store.
NextNav ==
    \/ InitEnforcer
    \/ RescanTimer
    \/ UrlTimer
    \/ \E u \in PageUrls : UrlSettle(u)
    \/ \E v \in Videos : PageAddVideo(v)
    \/ \E u \in PageUrls : PushState(u)
    \/ \E u \in PageUrls : ReplaceState(u)
    \/ \E u \in PageUrls : PopState(u)
    \/ \E enabled \in TogglePayloads : MsgToggleExtension(enabled)
    \/ \E speed \in DefaultInputs : StoreSetDefaultSpeed(speed)
    \/ \E enabled \in BOOLEAN : StoreSetEnabled(enabled)
    \/ \E id \in ContentIds, speed \in DefaultInputs : StoreSetContentSpeed(id, speed)

SpecNav == Init /\ [][NextNav]_vars

\* The Settings Store called directly, in any order, with any speed.
NextStore ==
    \/ \E speed \in StoreSpeedInputs : StoreSetDefaultSpeed(speed)
    \/ \E enabled \in BOOLEAN : StoreSetEnabled(enabled)
    \/ \E id \in ContentIds \cup {NullId}, speed \in StoreSpeedInputs :
          StoreSetContentSpeed(id, speed)
    \/ \E id \in ContentIds \cup {NullId} : StoreRemoveContentSpeed(id)
    \/ StoreClearAll

SpecStore == Init /\ [][NextStore]_vars

\* The content id resolver called with any URL.
NextResolve == \E u \in ResolverUrls : CallGenerateContentId(u)

SpecResolve == Init /\ [][NextResolve]_vars

\* The Settings Store called directly while the host storage API may reject
\* any of its calls.
NextFail ==
    \/ \E failed \in BOOLEAN : CallGetDefaultSpeed(failed)
    \/ \E failed \in BOOLEAN : CallGetEnabled(failed)
    \/ \E id \in ContentIds, failed \in BOOLEAN : CallGetContentSpeed(id, failed)
    \/ \E failed \in BOOLEAN : CallGetAllContentSpeeds(failed)
    \/ \E speed \in FailSpeedInputs, failed \in BOOLEAN : CallSetDefaultSpeed(speed, failed)
    \/ \E enabled \in BOOLEAN, failed \in BOOLEAN : CallSetEnabled(enabled, failed)
    \/ \E id \in ContentIds, speed \in FailSpeedInputs, failure \in ApiFailures :
          CallSetContentSpeed(id, speed, failure)
    \/ \E id \in ContentIds, failure \in ApiFailures : CallRemoveContentSpeed(id, failure)
    \/ \E failure \in ApiFailures : CallClearAll(failure)

SpecFail == Init /\ [][NextFail]_vars

\* The background service worker: menu clicks, commands and requests, with
\* the tabs coming and going.
NextBackground ==
    \/ \E menuItemId \in MenuItemIds, tab \in Tabs \cup {NoTab} :
          HandleContextMenuClick(menuItemId, tab)
    \/ \E command \in Commands : HandleCommand(command)
    \/ \E message \in BackgroundMessages : BackgroundHandleMessage(message)
    \/ \E tab \in Tabs : TabListenerAdded(tab)
    \/ \E tab \in Tabs : TabListenerGone(tab)
    \/ \E tabs \in {<<>>} \cup {<<tab>> : tab \in Tabs} : TabActivated(tabs)

SpecBackground == Init /\ [][NextBackground]_vars

\* The enforcer left to itself on one page while other contexts write the
\* synchronized namespace: no message is sent to it and the page does not
\* navigate.  Its pending work is done eventually: init() completes, a
\* pending timer fires, a queued ratechange event is dispatched.
NextNotify ==
    \/ InitEnforcer
    \/ RescanTimer
    \/ \E v \in Videos : RateChangeEvent(v)
    \/ \E v \in Videos : CorrectionTimer(v)
    \/ \E v \in Videos : PageAddVideo(v)
    \/ \E v \in Videos, r \in PageRates : PageSetRate(v, r)
    \/ \E speed \in DefaultInputs : StoreSetDefaultSpeed(speed)
    \/ \E enabled \in BOOLEAN : StoreSetEnabled(enabled)

FairNotify ==
    /\ WF_vars(InitEnforcer)
    /\ WF_vars(RescanTimer)
    /\ \A v \in Videos : WF_vars(RateChangeEvent(v))
    /\ \A v \in Videos : WF_vars(CorrectionTimer(v))

SpecNotify == Init /\ [][NextNotify]_vars /\ FairNotify

\* The enforcer driven by the keyboard commands: adjustSpeed and toggleExtension
\* messages on a page with video elements, the default stored by the popup.
NextKeys ==
    \/ InitEnforcer
    \/ \E delta \in KeyDeltas : MsgAdjustSpeed(delta)
    \/ \E enabled \in TogglePayloads : MsgToggleExtension(enabled)
    \/ RescanTimer
    \/ \E v \in Videos : PageAddVideo(v)
    \/ \E speed \in DefaultInputs : StoreSetDefaultSpeed(speed)

SpecKeys == Init /\ [][NextKeys]_vars

\* The background service worker registering its context menu: the browser
\* starts, the extension is installed or updated, in any order and before the
\* handlers of earlier events have completed.
NextMenus ==
    \/ InitializeExtension
    \/ \E reason \in InstallReasons : HandleInstalled(reason)
    \/ BrowserMenuCall
    \/ \E run \in 1..MaxMenuRuns : CreateContextMenusResumes(run)

SpecMenus == Init /\ [][NextMenus]_vars

\* The enforcer on a page whose video elements come and go: the page attaches
\* and detaches elements and changes their rates, the popup sets a speed.  The
\* enforcer's pending work is done eventually: init() completes, a pending
\* timer fires, a queued ratechange event is dispatched.
NextPage ==
    \/ InitEnforcer
    \/ RescanTimer
    \/ \E v \in Videos : RateChangeEvent(v)
    \/ \E v \in Videos : CorrectionTimer(v)
    \/ \E v \in Videos : LoadedMetadata(v)
    \/ \E v \in Videos : PageAddVideo(v)
    \/ \E v \in Videos : PageRemoveVideo(v)
    \/ \E v \in Videos, r \in PageRates : PageSetRate(v, r)
    \/ \E speed \in SpeedInputs : MsgSetSpeed(speed)

FairPage ==
    /\ WF_vars(InitEnforcer)
    /\ WF_vars(RescanTimer)
    /\ \A v \in Videos : WF_vars(RateChangeEvent(v))
    /\ \A v \in Videos : WF_vars(CorrectionTimer(v))

SpecPage == Init /\ [][NextPage]_vars /\ FairPage

----------------------------------------------------------------------------
(* The simple enforcer (the content script without content-specific speeds)  *)
(* and the simple store                                                      *)

JsBool(b) == IF b THEN "true" ELSE "false"
\* the truthiness of the enabled field
Truthy(e) == e = "true"

\* the enforcer, the rates and the queued ratechange events a handler of the
\* simple enforcer starts from, and the assignments it has made
SimpleWorld == [sm |-> simple, rate |-> rate, rc |-> rcQueued, wrote |-> {}]

\* applySpeedToVideo(video) for each video of S: the originalRate is recorded
\* once; the assignment of a currentSpeed that is no number throws (caught),
\* before the attribute and the listeners are added
SimpleApplySpeedToVideo(w, S) ==
    LET T == IF Truthy(w.sm.enabled) THEN S ELSE {}
        finite == w.sm.currentSpeed # UndefinedSpeed
        newRate == IF finite THEN Assign(w.rate, T, w.sm.currentSpeed) ELSE w.rate
    IN  [sm |-> [w.sm EXCEPT
                   !.videos = [v \in Videos |->
                                 IF v \in T /\ w.sm.videos[v] = NotStored
                                 THEN (IF w.rate[v] # 0 THEN w.rate[v] ELSE NormalSpeed)
                                 ELSE w.sm.videos[v]],
                   !.marked = IF finite THEN @ \cup T ELSE @],
         rate |-> newRate,
         rc |-> w.rc \cup Changed(w.rate, newRate),
         wrote |-> w.wrote \cup (IF finite THEN Writes(T, w.sm.currentSpeed) ELSE {})]

\* resetVideo(video): the rate it assigns
SimpleResetRate(sm, v) ==
    IF sm.videos[v] # NotStored THEN sm.videos[v] ELSE NormalSpeed

\* resetAllVideos()
SimpleResetAllVideos(w) ==
    LET newRate == [v \in Videos |-> IF v \in docVideos THEN SimpleResetRate(w.sm, v)
                                     ELSE w.rate[v]]
    IN  [w EXCEPT !.rate = newRate,
                  !.rc = w.rc \cup Changed(w.rate, newRate),
                  !.wrote = w.wrote \cup {<<v, newRate[v]>> : v \in docVideos}]

\* applyToAllVideos()
SimpleApplyToAllVideos(w) ==
    IF ~Truthy(w.sm.enabled) THEN SimpleResetAllVideos(w)
    ELSE SimpleApplySpeedToVideo(w, docVideos)

\* what a handler of the simple enforcer leaves
SimpleCommit(name, w, resps) ==
    /\ simple' = w.sm
    /\ rate' = w.rate
    /\ rcQueued' = w.rc
    /\ wrote' = w.wrote
    /\ lastOp' = Op(name)
    /\ responses' = resps
    /\ UNCHANGED <<url, enforcerVars, offTracked, urlSetBy, got, bgVars, pending>>

\* loadSettings(): the fields it sets from the synchronized namespace s
SimpleLoadSettings(sm, s) ==
    [sm EXCEPT !.enabled = JsBool(GetEnabled(s)),
               !.defaultSpeed = GetDefaultSpeed(s),
               !.currentSpeed = GetDefaultSpeed(s)]

\* init() completes: the settings are loaded, the speed is applied, the
\* observer and the listeners are set up
SimpleInit ==
    /\ simple.phase = "constructed"
    /\ SimpleCommit("simpleInit",
          SimpleApplyToAllVideos(
              [SimpleWorld EXCEPT !.sm = [SimpleLoadSettings(simple, sync)
                                            EXCEPT !.phase = "ready"]]),
          <<>>)
    /\ UNCHANGED <<sync, local, docVideos>>

\* what chrome.storage.onChanged reports of a write that takes a namespace
\* from old to new: the keys set to a different value with their new value,
\* and the keys removed
StorageChanges(namespace, old, new) ==
    [namespace |-> namespace,
     set |-> [k \in {k \in DOMAIN new : k \notin DOMAIN old \/ old[k] # new[k]}
                |-> new[k]],
     removed |-> DOMAIN old \ DOMAIN new]

ChangedKeys(n) == DOMAIN n.set \cup n.removed

\* the notifications pending after a write: one more when the enforcer has
\* its listener and the write changed something
Notified(sm, n) ==
    IF sm.phase = "ready" /\ ChangedKeys(n) # {}
    THEN [sm EXCEPT !.changes = Append(@, n)] ELSE sm

\* another context writes a namespace
SimpleStoreWrite(newSync, newLocal) ==
    /\ Len(simple.changes) < MaxChanges
    /\ sync' = newSync
    /\ local' = newLocal
    /\ simple' = IF newSync # sync
                 THEN Notified(simple, StorageChanges("sync", sync, newSync))
                 ELSE Notified(simple, StorageChanges("local", local, newLocal))
    /\ lastOp' = Op("simpleStore")
    /\ wrote' = {}
    /\ responses' = <<>>
    /\ UNCHANGED <<pageVars, enforcerVars, offTracked, urlSetBy, got, bgVars, pending>>

\* setDefaultSpeed(speed) of the simple store
SimpleSetDefaultSpeed(speed) == SimpleStoreWrite(SetDefaultSpeed(sync, speed), local)
\* setEnabled(enabled) of the simple store
SimpleSetEnabled(enabled) == SimpleStoreWrite(SetEnabled(sync, enabled), local)
\* clearAll() of the simple store: chrome.storage.sync.clear()
SimpleClearAll == SimpleStoreWrite(EmptyMap, local)
\* a write of the local namespace
SimpleLocalSet(speed) == SimpleStoreWrite(sync, Put(local, "defaultSpeed", speed))

\* changes.enabled.newValue: undefined when the key was removed
NewEnabled(n) ==
    IF "enabled" \in DOMAIN n.set THEN JsBool(n.set["enabled"]) ELSE "undefined"
\* changes.defaultSpeed.newValue: undefined when the key was removed
NewDefaultSpeed(n) ==
    IF "defaultSpeed" \in DOMAIN n.set THEN n.set["defaultSpeed"] ELSE UndefinedSpeed

\* the enabled part of the storage listener
SimpleEnabledChanged(w, n) ==
    IF "enabled" \in ChangedKeys(n)
    THEN LET w1 == [w EXCEPT !.sm.enabled = NewEnabled(n)]
         IN  IF Truthy(w1.sm.enabled) THEN SimpleApplyToAllVideos(w1)
             ELSE SimpleResetAllVideos(w1)
    ELSE w

\* the defaultSpeed part of the storage listener
SimpleDefaultSpeedChanged(w, n) ==
    IF "defaultSpeed" \in ChangedKeys(n)
    THEN LET w1 == [w EXCEPT !.sm.defaultSpeed = NewDefaultSpeed(n),
                             !.sm.currentSpeed = NewDefaultSpeed(n)]
         IN  IF Truthy(w1.sm.enabled) THEN SimpleApplyToAllVideos(w1) ELSE w1
    ELSE w

\* the listener of chrome.storage.onChanged runs for the notification that
\* waited longest
SimpleStorageChanged ==
    /\ simple.changes # <<>>
    /\ LET n == Head(simple.changes)
           w == [SimpleWorld EXCEPT !.sm.changes = Tail(@)]
       IN  SimpleCommit("simpleStorageChanged",
               IF n.namespace # "sync" THEN w
               ELSE SimpleDefaultSpeedChanged(SimpleEnabledChanged(w, n), n),
               <<>>)
    /\ UNCHANGED <<sync, local, docVideos>>

\* handleSetSpeed(speed), answered success true
SimpleHandleSetSpeed(speed) ==
    /\ simple.phase = "ready"
    /\ LET w == [SimpleWorld EXCEPT !.sm.currentSpeed = Clamp(speed)]
       IN  SimpleCommit("simpleSetSpeed",
               IF Truthy(w.sm.enabled) THEN SimpleApplyToAllVideos(w) ELSE w,
               <<Success>>)
    /\ UNCHANGED <<sync, local, docVideos>>

\* handleToggleExtension(enabled), answered success true; a message without
\* the enabled payload gives undefined
SimpleHandleToggleExtension(enabled) ==
    /\ simple.phase = "ready"
    /\ LET w == [SimpleWorld EXCEPT !.sm.enabled = enabled]
       IN  SimpleCommit("simpleToggle",
               IF Truthy(enabled) THEN SimpleApplyToAllVideos(w)
               ELSE SimpleResetAllVideos(w),
               <<Success>>)
    /\ UNCHANGED <<sync, local, docVideos>>

\* the page adds a video element; the MutationObserver callback runs for the
\* batch
SimplePageAddVideo(v) ==
    /\ v \notin docVideos
    /\ docVideos' = docVideos \cup {v}
    /\ SimpleCommit("simpleObserver",
          IF simple.phase = "ready" /\ Truthy(simple.enabled)
          THEN SimpleApplySpeedToVideo(SimpleWorld, {v}) ELSE SimpleWorld,
          <<>>)
    /\ UNCHANGED <<sync, local>>

\* the ratechange listener of a marked element runs
SimpleRateChangeEvent(v) ==
    /\ v \in rcQueued
    /\ LET schedule == /\ v \in simple.marked
                       /\ Truthy(simple.enabled)
                       /\ rate[v] # simple.currentSpeed
       IN  /\ schedule => simple.timers[v] < MaxCorrTimers
           /\ SimpleCommit("simpleRatechange",
                 [SimpleWorld EXCEPT
                    !.rc = @ \ {v},
                    !.sm.timers[v] = IF schedule THEN @ + 1 ELSE @],
                 <<>>)
    /\ UNCHANGED <<sync, local, docVideos>>

SimpleCorrectionTimerNoCheck(v) ==
    /\ simple.timers[v] > 0
    /\ LET w == [SimpleWorld EXCEPT !.sm.timers[v] = @ - 1]
       IN  SimpleCommit("simpleCorrection",
               IF simple.currentSpeed # UndefinedSpeed
               THEN [w EXCEPT !.rate = Assign(w.rate, {v}, simple.currentSpeed),
                              !.rc = @ \cup Changed(w.rate,
                                         Assign(w.rate, {v}, simple.currentSpeed)),
                              !.wrote = Writes({v}, simple.currentSpeed)]
               ELSE w,
               <<>>)
    /\ UNCHANGED <<sync, local, docVideos>>
\* a correction timer of the ratechange listener fires
SimpleCorrectionTimer(v) ==
    /\ simple.timers[v] > 0
    /\ LET w == [SimpleWorld EXCEPT !.sm.timers[v] = @ - 1]
       IN  SimpleCommit("simpleCorrection",
               IF Truthy(simple.enabled) /\ simple.currentSpeed # UndefinedSpeed
               THEN [w EXCEPT !.rate = Assign(w.rate, {v}, simple.currentSpeed),
                              !.rc = @ \cup Changed(w.rate,
                                         Assign(w.rate, {v}, simple.currentSpeed)),
                              !.wrote = Writes({v}, simple.currentSpeed)]
               ELSE w,
               <<>>)
    /\ UNCHANGED <<sync, local, docVideos>>

\* The simple enforcer on one page, with the popup (messages and writes of the
\* simple store) and the page as its environment
NextSimple ==
    \/ SimpleInit
    \/ SimpleStorageChanged
    \/ \E speed \in SpeedInputs : SimpleSetDefaultSpeed(speed)
    \/ \E enabled \in BOOLEAN : SimpleSetEnabled(enabled)
    \/ SimpleClearAll
    \/ \E speed \in DefaultInputs : SimpleLocalSet(speed)
    \/ \E speed \in SpeedInputs : SimpleHandleSetSpeed(speed)
    \/ \E enabled \in {"true", "false", "undefined"} : SimpleHandleToggleExtension(enabled)
    \/ \E v \in Videos : SimplePageAddVideo(v)
    \/ \E v \in Videos, r \in PageRates : PageSetRate(v, r)
    \/ \E v \in Videos : SimpleRateChangeEvent(v)
    \/ \E v \in Videos : SimpleCorrectionTimer(v)

SpecSimple == Init /\ [][NextSimple]_vars

----------------------------------------------------------------------------
(* setContentSpeed and removeContentSpeed step by step: the read of the      *)
(* contentSpeeds mapping and its write are two calls of chrome.storage.local *)
(* with an await each, and the calls of other contexts run in between        *)

\* what a step of such a call leaves alone
StoreCallStep ==
    /\ lastOp' = Op("storeCall")
    /\ responses' = <<>>
    /\ wrote' = {}
    /\ UNCHANGED <<pageVars, enforcerVars, offTracked, urlSetBy, got, bgVars,
                   simpleVars>>

\* a context calls setContentSpeed(id, speed) or removeContentSpeed(id): the
\* call is suspended at its chrome.storage.local.get
StoreCallStarts(op, id, speed) ==
    /\ Len(pending) < MaxCalls
    /\ pending' = Append(pending, [op |-> op, id |-> id, speed |-> speed,
                                   at |-> "get", value |-> EmptyMap])
    /\ UNCHANGED <<sync, local>>
    /\ StoreCallStep

\* the get of call i returns: the call changes its copy of the mapping and is
\* suspended at its chrome.storage.local.set
StoreCallReads(i) ==
    /\ pending[i].at = "get"
    /\ pending' = [pending EXCEPT
                     ![i].at = "set",
                     ![i].value =
                        IF pending[i].op = "setContentSpeed"
                        THEN ContentSpeedsOf(SetContentSpeed(local, pending[i].id,
                                                             pending[i].speed))
                        ELSE ContentSpeedsOf(RemoveContentSpeed(local, pending[i].id))]
    /\ UNCHANGED <<sync, local>>
    /\ StoreCallStep

\* the set of call i is carried out and the call returns
StoreCallWrites(i) ==
    /\ pending[i].at = "set"
    /\ local' = Put(local, "contentSpeeds", pending[i].value)
    /\ pending' = [pending EXCEPT ![i].at = "done"]
    /\ UNCHANGED sync
    /\ StoreCallStep

\* Contexts calling setContentSpeed and removeContentSpeed concurrently, on a
\* store that holds the entries of earlier calls
NextCalls ==
    \/ \E id \in ContentIds, speed \in DefaultInputs :
          pending = <<>> /\ StoreSetContentSpeed(id, speed)
    \/ \E id \in ContentIds, speed \in StoreSpeedInputs :
          StoreCallStarts("setContentSpeed", id, speed)
    \/ \E id \in ContentIds : StoreCallStarts("removeContentSpeed", id, 0)
    \/ \E i \in 1..MaxCalls : i <= Len(pending) /\ StoreCallReads(i)
    \/ \E i \in 1..MaxCalls : i <= Len(pending) /\ StoreCallWrites(i)

SpecCalls == Init /\ [][NextCalls]_vars

\* The simple enforcer being switched off and on, by messages and by writes of
\* the stored flag, while the page adds videos and changes rates
NextDisable ==
    \/ SimpleInit
    \/ SimpleStorageChanged
    \/ \E enabled \in BOOLEAN : SimpleSetEnabled(enabled)
    \/ SimpleClearAll
    \/ \E speed \in DefaultInputs : SimpleHandleSetSpeed(speed)
    \/ \E enabled \in {"true", "false", "undefined"} : SimpleHandleToggleExtension(enabled)
    \/ \E v \in Videos : SimplePageAddVideo(v)
    \/ \E v \in Videos, r \in PageRates : PageSetRate(v, r)
    \/ \E v \in Videos : SimpleRateChangeEvent(v)
    \/ \E v \in Videos : SimpleCorrectionTimer(v)

SpecDisable == Init /\ [][NextDisable]_vars

\* the enforcer has nothing pending for element v: no ratechange event queued,
\* no correction timer
Quiet(v) == v \notin rcQueued /\ corrTimers[v] = 0

\* The enforcer correcting rates: the page changes the rate of an element and
\* then leaves it alone until the enforcer has nothing pending for it; the
\* popup sets speeds at any time.  A pending timer fires and a queued event is
\* dispatched eventually.
NextCorrect ==
    \/ InitEnforcer
    \/ RescanTimer
    \/ \E v \in Videos : RateChangeEvent(v)
    \/ \E v \in Videos : CorrectionTimer(v)
    \/ \E v \in Videos : LoadedMetadata(v)
    \/ \E v \in Videos : PageAddVideo(v)
    \/ \E v \in Videos : PageRemoveVideo(v)
    \/ \E v \in Videos, r \in PageRates : Quiet(v) /\ PageSetRate(v, r)
    \/ \E speed \in SpeedInputs : MsgSetSpeed(speed)

SpecCorrect == Init /\ [][NextCorrect]_vars /\ FairPage

\* The enforcer with its storage calls taking time: loadSettings runs started
\* by navigations and by toggleExtension messages overlap and their storage
\* calls complete in any order.  Other contexts write the store only while no
\* run is suspended.
NextLoads ==
    \/ InitEnforcer
    \/ UrlTimer
    \/ \E u \in PageUrls : UrlSettleStarts(u)
    \/ \E enabled \in TogglePayloads : ToggleExtensionStarts(enabled)
    \/ \E i \in 1..MaxLoads : LoadStep(i)
    \/ \E u \in PageUrls : PopState(u)
    \/ \E id \in ContentIds, speed \in DefaultInputs :
          loads = <<>> /\ StoreSetContentSpeed(id, speed)

SpecLoads == Init /\ [][NextLoads]_vars

\* The two message handlers: every request the enforcer and the background
\* can receive, on a page with video elements, with the tabs coming and going.
NextMessages ==
    \/ InitEnforcer
    \/ \E speed \in SpeedInputs : MsgSetContentSpeed(speed)
    \/ MsgRemoveContentSpeed
    \/ \E enabled \in TogglePayloads : MsgToggleExtension(enabled)
    \/ \E speed \in SpeedInputs : MsgSetSpeed(speed)
    \/ \E delta \in Deltas : MsgAdjustSpeed(delta)
    \/ MsgGetCurrentState
    \/ \E action \in UnknownActions : MsgUnknown(action)
    \/ \E v \in Videos : PageAddVideo(v)
    \/ \E message \in BackgroundMessages : BackgroundHandleMessage(message)
    \/ \E tab \in Tabs : TabListenerAdded(tab)
    \/ \E tab \in Tabs : TabListenerGone(tab)
    \/ \E tabs \in {<<>>} \cup {<<tab>> : tab \in Tabs} : TabActivated(tabs)

SpecMessages == Init /\ [][NextMessages]_vars

----------------------------------------------------------------------------
(* What the store holds, read off the two namespaces directly *)

StoredEnabledOrAbsent == "enabled" \notin DOMAIN sync \/ sync["enabled"] = TRUE

HasEntry(l, id) ==
    "contentSpeeds" \in DOMAIN l /\ KeyOf(id) \in DOMAIN l["contentSpeeds"]

\* the rate the store resolves for content id: its entry, else the stored
\* default, else 1.0
ExpectedSpeed(s, l, id) ==
    IF HasEntry(l, id) THEN l["contentSpeeds"][KeyOf(id)]
    ELSE IF "defaultSpeed" \in DOMAIN s THEN s["defaultSpeed"]
    ELSE 10

InRange(x) == 5 <= x /\ x <= 50

----------------------------------------------------------------------------
(* Properties *)

\* C1: when a toggleExtension message re-enables the extension that an
\* earlier toggleExtension message disabled, then at the completion of the
\* handler every element that was tracked at the disable has the rate
\* resolved for the current content.
C1_ReenableReapplies ==
    [][(offTracked # NotOff /\ lastOp' = "toggleExtension" /\ isEnabled')
        => \A v \in offTracked :
              rate'[v] = ExpectedSpeed(sync', local', GenerateContentId(url'))]_vars

\* C2: while the extension is off after a toggle's reset, no handler other
\* than a toggle assigns a playbackRate.
C2_NoAssignmentWhileOff ==
    (offTracked # NotOff /\ lastOp # "toggleExtension") => wrote = {}

\* C3: when toggleExtension has switched the extension off, every video
\* element of the document, tracked or not, has rate 1.0 and the stored
\* enabled flag is false.
C3_ToggleOffResets ==
    (lastOp = "toggleExtension" /\ ~isEnabled)
        => /\ \A v \in docVideos : rate[v] = 10
           /\ "enabled" \in DOMAIN sync
           /\ sync["enabled"] = FALSE

\* C3 witness: a toggle has switched the extension off and its reset assigned
\* 1.0 to an element of the document that was never tracked
C3_Witness ==
    /\ lastOp = "toggleExtension"
    /\ ~isEnabled
    /\ \E v \in docVideos \ videos : <<v, 10>> \in wrote /\ v \in rcQueued

\* C4: once a URL set by pushState/replaceState has been handled (no
\* URL-change callback pending, no navigation in its settle delay) with the
\* extension enabled, contentId is the content id of the current URL.
C4_HistoryReresolves ==
    (/\ phase = "ready"
     /\ urlSetBy = "history"
     /\ navTimers = <<>>
     /\ processingUrls = {}
     /\ isEnabled
     /\ StoredEnabledOrAbsent)
        => contentId = GenerateContentId(url)

\* C5: when handleUrlChange has completed with the extension enabled, every
\* video element of the document has the rate resolved for the content id of
\* the new URL.
C5_SettledRates ==
    (lastOp = "urlSettle" /\ isEnabled)
        => \A v \in docVideos :
              rate[v] = ExpectedSpeed(sync, local, GenerateContentId(url))

\* C6: the persisted defaultSpeed, when present, and every persisted content
\* speed lie in [0.5, 5.0].
C6_StoredInRange ==
    /\ "defaultSpeed" \in DOMAIN sync => InRange(sync["defaultSpeed"])
    /\ "contentSpeeds" \in DOMAIN local
          => \A k \in DOMAIN local["contentSpeeds"] :
                InRange(local["contentSpeeds"][k])

\* C6 witness: speeds below and above the range have been stored, clamped
C6_Witness ==
    /\ "defaultSpeed" \in DOMAIN sync
    /\ sync["defaultSpeed"] = 50
    /\ "contentSpeeds" \in DOMAIN local
    /\ \E k \in DOMAIN local["contentSpeeds"] : local["contentSpeeds"][k] = 5

\* C7: every value the enforcer assigns to a playbackRate, and every value of
\* currentSpeed, lies in [0.5, 5.0].
C7_RatesInRange ==
    /\ \A w \in wrote : InRange(w[2])
    /\ InRange(currentSpeed)

\* C8: after setContentSpeed(id, s) with s in [0.5, 5.0], getContentSpeed(id)
\* returns s; after removeContentSpeed(id), getContentSpeed(id) returns null.
C8_RoundTrip ==
    [][/\ \A id \in ContentIds \cup {NullId}, s \in StoreSpeedInputs :
             (InRange(s) /\ StoreSetContentSpeed(id, s))
                => GetContentSpeed(local', id) = s
       /\ \A id \in ContentIds \cup {NullId} :
             StoreRemoveContentSpeed(id) => GetContentSpeed(local', id) = NullSpeed]_vars

\* C8 witness: removeContentSpeed has just removed one entry of a mapping that
\* setContentSpeed filled
C8_Witness ==
    /\ lastOp = "storeRemoveContentSpeed"
    /\ "contentSpeeds" \in DOMAIN local
    /\ \E k \in DOMAIN local["contentSpeeds"] : local["contentSpeeds"][k] = 15
    /\ \E id \in ContentIds : KeyOf(id) \notin DOMAIN local["contentSpeeds"]

\* C9: when loadSettings has completed (in init, after a navigation, on
\* re-enabling) with the stored enabled flag true or absent, contentId is the
\* content id of the page URL and currentSpeed is the stored speed of that
\* id, else the stored default, else 1.0.
C9_LoadSettingsResolves ==
    (/\ lastOp \in {"init", "urlSettle", "toggleExtension"}
     /\ isEnabled
     /\ StoredEnabledOrAbsent)
        => /\ contentId = GenerateContentId(url)
           /\ currentSpeed = ExpectedSpeed(sync, local, contentId)

\* C9 witness: a navigation has completed on a page that has a
\* content-specific speed while another default is stored
C9_Witness ==
    /\ lastOp = "urlSettle"
    /\ isEnabled
    /\ StoredEnabledOrAbsent
    /\ url = UrlExample
    /\ HasEntry(local, contentId)
    /\ currentSpeed = 30
    /\ "defaultSpeed" \notin DOMAIN sync

\* C10: when the removeContentSpeed handler has completed with the extension
\* enabled, the store has no entry for contentId, currentSpeed is the stored
\* default speed and every video element of the document has that rate.
C10_RemoveFallsBack ==
    (lastOp = "removeContentSpeed" /\ isEnabled)
        => /\ ~HasEntry(local, contentId)
           /\ currentSpeed = ExpectedSpeed(sync, EmptyMap, contentId)
           /\ \A v \in docVideos : rate[v] = currentSpeed

\* C10 witness: the override was removed with a default of 3.0 stored, and
\* the element of the document went from the override to the default
C10_Witness ==
    /\ lastOp = "removeContentSpeed"
    /\ isEnabled
    /\ "defaultSpeed" \in DOMAIN sync
    /\ \E v \in docVideos : <<v, 30>> \in wrote /\ v \in rcQueued

\* the defaultSpeed persisted in the synchronized namespace (NullSpeed: none)
StoredDefault(s) == IF "defaultSpeed" \in DOMAIN s THEN s["defaultSpeed"] ELSE NullSpeed

\* C11: a step of the enforcer's setContentSpeed, setSpeed, adjustSpeed or
\* removeContentSpeed message handler leaves the defaultSpeed persisted in the
\* synchronized namespace as it was (a value unchanged, or none stored).
C11_DefaultSpeedKept ==
    [][lastOp' \in {"setContentSpeed", "setSpeed", "adjustSpeed", "removeContentSpeed"}
          => StoredDefault(sync') = StoredDefault(sync)]_vars

\* C11 witness: with a default of 3.0 stored, setSpeed has stored another
\* speed for the page's content and applied it
C11_Witness ==
    /\ lastOp = "setSpeed"
    /\ StoredDefault(sync) = 30
    /\ HasEntry(local, contentId)
    /\ currentSpeed = 5
    /\ \E v \in docVideos : <<v, 5>> \in wrote

\* the steps that are runs of a message handler
MessageOps == {"setContentSpeed", "removeContentSpeed", "toggleExtension",
               "adjustSpeed", "setSpeed", "getCurrentState", "unknownAction",
               "backgroundMessage"}

\* C12: every run of a message handler (the enforcer's, the background's)
\* sends exactly one response; a message whose action the handler does not
\* support is answered success false, and its run changes neither the
\* enforcer's fields, the page, the store nor the tabs, and sends no message.
C12_OneResponse ==
    [][/\ lastOp' \in MessageOps => Len(responses') = 1
       /\ lastOp' = "unknownAction"
             => \A action \in UnknownActions :
                   MsgUnknown(action)
                      => /\ responses'[1].success = FALSE
                         /\ UNCHANGED <<storeVars, enforcerVars, pageVars, tabVars>>
                         /\ wrote' = {}
       /\ lastOp' = "backgroundMessage"
             => \A message \in BackgroundMessages :
                   (message.action \in BackgroundUnknownActions
                    /\ BackgroundHandleMessage(message))
                      => /\ responses'[1].success = FALSE
                         /\ UNCHANGED <<storeVars, enforcerVars, pageVars, tabVars>>
                         /\ sent' = <<>>]_vars

\* C12 witness: the enforcer, holding a stored speed for its page, has
\* answered a message it does not support
C12_Witness ==
    /\ lastOp = "unknownAction"
    /\ responses = <<Failure("Unknown action")>>
    /\ HasEntry(local, contentId)
    /\ docVideos # {}
    /\ tabListens # {}

\* C13: when the writes of other contexts to the synchronized namespace have
\* stopped, the enforcer's isEnabled eventually equals the stored enabled
\* flag for good and, with the extension enabled and no content-specific
\* speed stored for its page, its currentSpeed eventually equals the stored
\* defaultSpeed for good, with no message sent to it.
C13_StoreChangeSeen ==
    /\ <>[](~GetEnabled(sync)) => <>[](~isEnabled)
    /\ <>[](GetEnabled(sync)) => <>[]isEnabled
    /\ \A speed \in DefaultInputs :
          <>[](/\ GetEnabled(sync)
               /\ StoredDefault(sync) = speed
               /\ ~HasEntry(local, GenerateContentId(url)))
             => <>[](currentSpeed = speed)

\* C14: with the extension enabled, a step of the adjustSpeed handler with
\* delta d sets currentSpeed to min(5.0, max(0.5, currentSpeed + d)); under
\* adjustSpeed and toggleExtension messages currentSpeed never leaves
\* [0.5, 5.0].
C14_AdjustClamped ==
    /\ [](5 <= currentSpeed /\ currentSpeed <= 50)
    /\ [][\A d \in KeyDeltas :
             (isEnabled /\ MsgAdjustSpeed(d))
                => currentSpeed' = (IF currentSpeed + d > 50 THEN 50
                                    ELSE IF currentSpeed + d < 5 THEN 5
                                    ELSE currentSpeed + d)]_vars

\* C14 witness: steps of 0.1 have brought the speed to 5.0 from just below,
\* or kept it there: the last adjustSpeed stored 5.0 for the page and
\* assigned it to a video element
C14_Witness ==
    /\ lastOp = "adjustSpeed"
    /\ isEnabled
    /\ currentSpeed = 50
    /\ HasEntry(local, contentId)
    /\ local["contentSpeeds"][KeyOf(contentId)] = 50
    /\ \E v \in docVideos : <<v, 50>> \in wrote

Setters == {"setEnabled", "setDefaultSpeed", "setContentSpeed", "removeContentSpeed",
            "clearAll"}

\* C15: a Settings Store call during which the host storage API rejects
\* returns normally; a getter then returns its compiled-in default (getEnabled
\* true, getDefaultSpeed 1.0, getContentSpeed null, getAllContentSpeeds the
\* empty mapping) and a setter leaves both namespaces as they were.
C15_FailureNoOp ==
    /\ [](/\ ~got.threw
           /\ (got.failed /\ got.op = "getEnabled" => got.value = TRUE)
           /\ (got.failed /\ got.op = "getDefaultSpeed" => got.value = 10)
           /\ (got.failed /\ got.op = "getContentSpeed" => got.value = NullSpeed)
           /\ (got.failed /\ got.op = "getAllContentSpeeds" => got.value = <<>>))
    /\ [][(got'.failed /\ got'.op \in Setters) => UNCHANGED storeVars]_vars

(* What the resolver rules say of a URL, read off its hostname and pathname *)

YouTubeHosts == {<<"www", ".", "youtube", ".", "com">>, <<"youtu", ".", "be">>}
NetflixHosts == {<<"www", ".", "netflix", ".", "com">>}
TwitchHosts == {<<"www", ".", "twitch", ".", "tv">>}
VimeoHosts == {<<"vimeo", ".", "com">>}
KnownHosts == YouTubeHosts \cup NetflixHosts \cup TwitchHosts \cup VimeoHosts

\* the short name the resolver gives a known site
SiteOf(h) ==
    IF h \in YouTubeHosts THEN "youtube" ELSE IF h \in NetflixHosts THEN "netflix"
    ELSE IF h \in TwitchHosts THEN "twitch" ELSE "vimeo"

\* p has /channel/<x> at i; p has /@<handle> at i
ChannelAt(p, i) ==
    /\ i + 3 <= Len(p)
    /\ p[i] = "/" /\ p[i+1] = "channel" /\ p[i+2] = "/" /\ p[i+3] # "/"
HandleAt(p, i) == i + 2 <= Len(p) /\ p[i] = "/" /\ p[i+1] = "@" /\ p[i+2] # "/"
HasChannelOrHandle(p) == \E i \in 1..Len(p) : ChannelAt(p, i) \/ HandleAt(p, i)
\* channel/<x> or @<handle>, the first in p
ChannelOrHandle(p) ==
    LET i == CHOOSE i \in 1..Len(p) :
                 /\ ChannelAt(p, i) \/ HandleAt(p, i)
                 /\ \A j \in 1..(i - 1) : ~(ChannelAt(p, j) \/ HandleAt(p, j))
    IN  IF ChannelAt(p, i) THEN <<"channel", "/", p[i+3]>> ELSE <<"@", p[i+2]>>
\* p contains "/channel/" or "/@", followed by a segment or not
HasChannelMark(p) == Includes(p, <<"/", "channel", "/">>) \/ Includes(p, <<"/", "@">>)

\* p has /title/<digits> at i
TitleAt(p, i) ==
    /\ i + 3 <= Len(p)
    /\ p[i] = "/" /\ p[i+1] = "title" /\ p[i+2] = "/" /\ p[i+3] \in DigitTokens
HasTitle(p) == \E i \in 1..Len(p) : TitleAt(p, i)
TitleDigits(p) ==
    LET i == CHOOSE i \in 1..Len(p) :
                 TitleAt(p, i) /\ \A j \in 1..(i - 1) : ~TitleAt(p, j)
    IN  p[i+3]

\* the first path segment of p, <<>> when p is "/"
FirstSegment(p) ==
    LET ends == {k \in 2..(Len(p) + 1) : k = Len(p) + 1 \/ p[k] = "/"}
        k == CHOOSE k \in ends : \A j \in ends : k <= j
    IN  SubSeq(p, 2, k - 1)

HasDigitsSegment(p) ==
    \E i \in 1..(Len(p) - 1) : p[i] = "/" /\ p[i+1] \in DigitTokens

\* a known site's URL whose path matches none of the site's patterns
Unmatched(u) ==
    \/ u.hostname \in YouTubeHosts /\ ~HasChannelOrHandle(u.pathname) /\ u.v = <<>>
    \/ u.hostname \in NetflixHosts /\ ~HasTitle(u.pathname)
    \/ u.hostname \in TwitchHosts /\ FirstSegment(u.pathname) \in {<<>>, <<"directory">>}
    \/ u.hostname \in VimeoHosts /\ ~HasDigitsSegment(u.pathname)

\* the rules of the resolver that C16 states in the same way as the code has
\* them: Netflix titles, Twitch channels, the four samples
RulesBesideYouTube(u, id) ==
    /\ (u.hostname \in NetflixHosts /\ HasTitle(u.pathname))
          => id = <<"netflix", ":", "title", ":", TitleDigits(u.pathname)>>
    /\ (/\ u.hostname \in TwitchHosts
        /\ FirstSegment(u.pathname) \notin {<<>>, <<"directory">>})
          => id = <<"twitch", ":">> \o FirstSegment(u.pathname)
    /\ u = MkUrl(<<"www", ".", "youtube", ".", "com">>, <<"/", "watch">>, <<"abc123">>)
          => id = <<"youtube", ":", "video", ":", "abc123">>
    /\ u = MkUrl(<<"www", ".", "netflix", ".", "com">>, <<"/", "title", "/", "70143836">>, <<>>)
          => id = <<"netflix", ":", "title", ":", "70143836">>
    /\ u = MkUrl(<<"www", ".", "twitch", ".", "tv">>, <<"/", "somestreamer">>, <<>>)
          => id = <<"twitch", ":", "somestreamer">>
    /\ u = MkUrl(<<"example", ".", "com">>, <<"/", "foo", "/", "bar">>, <<>>)
          => id = <<"example", ".", "com", ":", "/", "foo", "/", "bar">>

\* the first /<digits> of p
DigitsSegment(p) ==
    LET at(i) == i + 1 <= Len(p) /\ p[i] = "/" /\ p[i+1] \in DigitTokens
        i == CHOOSE i \in 1..Len(p) : at(i) /\ \A j \in 1..(i - 1) : ~at(j)
    IN  p[i+1]

\* C16 as claimed: generateContentId gives a YouTube URL whose path contains
\* /channel/<x> or /@<handle> the channel or handle id, also with a v
\* parameter, and otherwise a YouTube URL with v=<id> the id youtube:video:<id>;
\* a Netflix /title/<digits> path netflix:title:<digits>; a Twitch URL
\* twitch:<first segment> unless the segment is "directory"; any other
\* hostname <hostname>:<pathname>; and the four sample URLs their sample ids.
C16_ResolverRules ==
    (got.op = "generateContentId" /\ got.arg.valid)
        => /\ (/\ got.arg.hostname \in YouTubeHosts
               /\ HasChannelOrHandle(got.arg.pathname))
                 => got.value = <<"youtube", ":">> \o ChannelOrHandle(got.arg.pathname)
           /\ (/\ got.arg.hostname \in YouTubeHosts
               /\ ~HasChannelOrHandle(got.arg.pathname)
               /\ got.arg.v # <<>>)
                 => got.value = <<"youtube", ":", "video", ":">> \o got.arg.v
           /\ got.arg.hostname \notin YouTubeHosts \cup NetflixHosts \cup TwitchHosts
                 => got.value = got.arg.hostname \o <<":">> \o got.arg.pathname
           /\ RulesBesideYouTube(got.arg, got.value)

\* C16 as amended: as claimed, except that the v parameter decides only for
\* a YouTube path that contains neither "/channel/" nor "/@" (a path that
\* contains one of them with no segment after it yields youtube:<pathname>,
\* with or without a v parameter), and that Vimeo is a known site too: a
\* Vimeo path with /<digits> yields vimeo:<digits>, and <hostname>:<pathname>
\* is the id of the hostnames of none of the four sites.
C16_ResolverRulesAmended ==
    (got.op = "generateContentId" /\ got.arg.valid)
        => /\ (/\ got.arg.hostname \in YouTubeHosts
               /\ HasChannelOrHandle(got.arg.pathname))
                 => got.value = <<"youtube", ":">> \o ChannelOrHandle(got.arg.pathname)
           /\ (/\ got.arg.hostname \in YouTubeHosts
               /\ HasChannelMark(got.arg.pathname)
               /\ ~HasChannelOrHandle(got.arg.pathname))
                 => got.value = <<"youtube", ":">> \o got.arg.pathname
           /\ (/\ got.arg.hostname \in YouTubeHosts
               /\ ~HasChannelMark(got.arg.pathname)
               /\ got.arg.v # <<>>)
                 => got.value = <<"youtube", ":", "video", ":">> \o got.arg.v
           /\ (got.arg.hostname \in VimeoHosts /\ HasDigitsSegment(got.arg.pathname))
                 => got.value = <<"vimeo", ":", DigitsSegment(got.arg.pathname)>>
           /\ got.arg.hostname \notin KnownHosts
                 => got.value = got.arg.hostname \o <<":">> \o got.arg.pathname
           /\ RulesBesideYouTube(got.arg, got.value)

\* C16 witness: the resolver was given a YouTube URL with the path /channel/
\* and a v parameter, and returned youtube:/channel/
C16_Witness ==
    /\ got.op = "generateContentId"
    /\ got.arg = MkUrl(<<"www", ".", "youtube", ".", "com">>, <<"/", "channel", "/">>,
                       <<"abc123">>)
    /\ got.value = <<"youtube", ":", "/", "channel", "/">>

\* C17 as claimed: for a URL of a known site whose path matches none of the
\* site's patterns, generateContentId returns <hostname>:<pathname>.
C17_UnmatchedIsHostPath ==
    (got.op = "generateContentId" /\ got.arg.valid /\ Unmatched(got.arg))
        => got.value = got.arg.hostname \o <<":">> \o got.arg.pathname

\* C17 as amended: for such a URL generateContentId returns <site>:<pathname>,
\* with the site's short name (youtube, netflix, twitch, vimeo) in place of
\* the hostname.
C17_UnmatchedIsSitePath ==
    (got.op = "generateContentId" /\ got.arg.valid /\ Unmatched(got.arg))
        => got.value = <<SiteOf(got.arg.hostname), ":">> \o got.arg.pathname

\* C17 witness: the resolver was given the Twitch URL /directory and returned
\* twitch:/directory
C17_Witness ==
    /\ got.op = "generateContentId"
    /\ got.arg = MkUrl(<<"www", ".", "twitch", ".", "tv">>, <<"/", "directory">>, <<>>)
    /\ got.value = <<"twitch", ":", "/", "directory">>

(* What the menu and the commands are to send *)

\* the preset entries of the context menu and their speeds, in hundredths
PresetSpeeds ==
    [id \in {"video-speed-controller-speed-0.5", "video-speed-controller-speed-0.75",
             "video-speed-controller-speed-1.0", "video-speed-controller-speed-1.25",
             "video-speed-controller-speed-1.5", "video-speed-controller-speed-1.75",
             "video-speed-controller-speed-2.0", "video-speed-controller-speed-2.5",
             "video-speed-controller-speed-3.0", "video-speed-controller-speed-4.0",
             "video-speed-controller-speed-5.0"} |->
        CASE id = "video-speed-controller-speed-0.5" -> 50
          [] id = "video-speed-controller-speed-0.75" -> 75
          [] id = "video-speed-controller-speed-1.0" -> 100
          [] id = "video-speed-controller-speed-1.25" -> 125
          [] id = "video-speed-controller-speed-1.5" -> 150
          [] id = "video-speed-controller-speed-1.75" -> 175
          [] id = "video-speed-controller-speed-2.0" -> 200
          [] id = "video-speed-controller-speed-2.5" -> 250
          [] id = "video-speed-controller-speed-3.0" -> 300
          [] id = "video-speed-controller-speed-4.0" -> 400
          [] id = "video-speed-controller-speed-5.0" -> 500]

\* the one message a click on entry menuItemId in tab is to send, if any
ExpectedOfClick(menuItemId, tab) ==
    IF menuItemId \in DOMAIN PresetSpeeds
    THEN <<[tabId |-> tab,
            message |-> [action |-> "setContentSpeed",
                         speed |-> PresetSpeeds[menuItemId]]]>>
    ELSE IF menuItemId = "video-speed-controller-remove"
    THEN <<[tabId |-> tab, message |-> [action |-> "removeContentSpeed"]]>>
    ELSE <<>>

\* the one message a command is to send to the active tab, if any
ExpectedOfCommand(command, tabs) ==
    IF tabs = <<>> THEN <<>>
    ELSE IF command = "toggle-extension"
    THEN <<[tabId |-> tabs[1], message |-> [action |-> "toggleExtension"]]>>
    ELSE IF command = "increase-speed"
    THEN <<[tabId |-> tabs[1], message |-> [action |-> "adjustSpeed", delta |-> 1]]>>
    ELSE IF command = "decrease-speed"
    THEN <<[tabId |-> tabs[1], message |-> [action |-> "adjustSpeed", delta |-> -1]]>>
    ELSE <<>>

\* C18: a click on a preset entry in a tab makes the background send exactly
\* one message {setContentSpeed, speed: p} to that tab, p the entry's preset,
\* one of eleven between 0.5 and 5.0; a click on the remove entry sends
\* exactly one {removeContentSpeed} to that tab; a click on any other entry
\* sends nothing.
C18_MenuClickSends ==
    [][lastOp' = "contextMenuClick"
          => \A menuItemId \in MenuItemIds, tab \in Tabs :
                HandleContextMenuClick(menuItemId, tab)
                   => /\ sent' = ExpectedOfClick(menuItemId, tab)
                      /\ Cardinality(DOMAIN PresetSpeeds) = 11
                      /\ \A i \in 1..Len(sent') :
                            sent'[i].message.action = "setContentSpeed"
                               => /\ 50 <= sent'[i].message.speed
                                  /\ sent'[i].message.speed <= 500]_vars

\* C18 witness: a click on the 0.75x entry in tab 2 sent setContentSpeed 0.75
\* to tab 2, which received it
C18_Witness ==
    /\ lastOp = "contextMenuClick"
    /\ sent = <<[tabId |-> 2, message |-> [action |-> "setContentSpeed", speed |-> 75]]>>
    /\ ~caught
    /\ 2 \in tabListens

\* C19: a command makes the background send exactly one message to the
\* active tab of the current window: toggle-extension a toggleExtension
\* without payload, increase-speed an adjustSpeed with delta +0.1,
\* decrease-speed one with delta -0.1; an unknown command, or any command
\* when there is no active tab, sends nothing.
C19_CommandSends ==
    [][lastOp' = "command"
          => \A command \in Commands :
                HandleCommand(command)
                   => sent' = ExpectedOfCommand(command, activeTabs)]_vars

\* C19 witness: decrease-speed sent adjustSpeed -0.1 to the active tab 1
C19_Witness ==
    /\ lastOp = "command"
    /\ activeTabs = <<1>>
    /\ sent = <<[tabId |-> 1, message |-> [action |-> "adjustSpeed", delta |-> -1]]>>
    /\ ~caught

\* C20: a run of the menu-click or command handler whose delivery fails, the
\* tab having no listener, ends without an error leaving the handler and
\* changes nothing in the store; and after a failed delivery every click and
\* command still sends its message and every request still gets its one
\* response.
C20_DeliveryFailureSwallowed ==
    [][/\ lastOp' \in {"contextMenuClick", "command"}
             => ~uncaught' /\ UNCHANGED storeVars
       /\ ((caught \/ failedBefore) /\ lastOp' = "contextMenuClick")
             => \A menuItemId \in MenuItemIds, tab \in Tabs :
                   HandleContextMenuClick(menuItemId, tab)
                      => sent' = ExpectedOfClick(menuItemId, tab)
       /\ ((caught \/ failedBefore) /\ lastOp' = "command")
             => \A command \in Commands :
                   HandleCommand(command)
                      => sent' = ExpectedOfCommand(command, activeTabs)
       /\ ((caught \/ failedBefore) /\ lastOp' = "backgroundMessage")
             => Len(responses') = 1 /\ ~uncaught']_vars

\* C20 witness: after a delivery that failed, a command has sent its message
\* to the active tab, which has a listener
C20_Witness ==
    /\ failedBefore
    /\ lastOp = "command"
    /\ ~caught
    /\ ~uncaught
    /\ \E i \in 1..Len(sent) : sent[i].tabId \in tabListens

----------------------------------------------------------------------------
(* The registered context menu *)

\* every handler run so far has returned and the browser has carried out
\* every call they made
MenuSettled ==
    /\ menuRequests = <<>>
    /\ \A run \in 1..Len(menuRuns) : menuRuns[run].at = "done"

\* the entries registered with id
Registered(id) == {i \in 1..Len(contextMenus) : contextMenus[i].id = id}

\* C21: after any startup, install and update events, their handlers
\* interleaving at the await on removeAll or not, once all handlers have
\* completed (and the browser has carried out their calls) the registered menu
\* is exactly: one parent entry, eleven children of it, one per preset, one
\* separator and one remove entry, and no id is registered twice.
C21_MenuRegistered ==
    (/\ MenuSettled
     /\ \E run \in 1..Len(menuRuns) :
           menuRuns[run].event \in {"startup", "install", "update"})
       => /\ Len(contextMenus) = 14
          /\ \A i \in 1..Len(contextMenus) : Cardinality(Registered(contextMenus[i].id)) = 1
          /\ \E i \in 1..Len(contextMenus) :
                contextMenus[i] = MenuItem("video-speed-controller-main", "", "normal")
          /\ \A id \in DOMAIN PresetSpeeds :
                \E i \in 1..Len(contextMenus) :
                   contextMenus[i] = MenuItem(id, "video-speed-controller-main", "normal")
          /\ \E i \in 1..Len(contextMenus) :
                contextMenus[i] = MenuItem("video-speed-controller-separator",
                                           "video-speed-controller-main", "separator")
          /\ \E i \in 1..Len(contextMenus) :
                contextMenus[i] = MenuItem("video-speed-controller-remove",
                                           "video-speed-controller-main", "normal")

\* a startup handler and an install handler have interleaved at the await
\* (the second called removeAll before the first had returned), and all is done
C21_Witness ==
    /\ MenuSettled
    /\ Len(menuRuns) = 2
    /\ menuRuns[1].event = "startup"
    /\ menuRuns[2].event = "install" /\ menuRuns[2].overlaps
    /\ Len(contextMenus) = 14

----------------------------------------------------------------------------
(* removeContentSpeed and the entries it is not about *)

\* the ids removeContentSpeed is called with
RemovedIds == ContentIds \cup {NullId}

\* do the mappings m1 and m2 agree on the entry of key k
SameEntry(m1, m2, k) ==
    /\ k \in DOMAIN m1 <=> k \in DOMAIN m2
    /\ k \in DOMAIN m1 => m1[k] = m2[k]

\* C22: removeContentSpeed(id) for an id without an entry leaves the mapping
\* that getAllContentSpeeds returns as it was; for any id it leaves the entry
\* of every other content id, the stored default speed and the stored enabled
\* flag as they were.
C22_RemoveAbsentNoOp ==
    [][\A id \in RemovedIds :
          StoreRemoveContentSpeed(id)
             => /\ KeyOf(id) \notin DOMAIN GetAllContentSpeeds(local)
                      => GetAllContentSpeeds(local') = GetAllContentSpeeds(local)
                /\ \A k \in (DOMAIN GetAllContentSpeeds(local)
                              \cup DOMAIN GetAllContentSpeeds(local')) \ {KeyOf(id)} :
                      SameEntry(GetAllContentSpeeds(local), GetAllContentSpeeds(local'), k)
                /\ sync' = sync
                /\ GetDefaultSpeed(sync') = GetDefaultSpeed(sync)
                /\ GetEnabled(sync') = GetEnabled(sync)]_vars

\* C22 witness: removeContentSpeed was called last, for an id without an
\* entry, while another id has one and both scalar settings are stored
C22_Witness ==
    /\ lastOp = "storeRemoveContentSpeed"
    /\ \E k \in DOMAIN GetAllContentSpeeds(local) : GetAllContentSpeeds(local)[k] = 50
    /\ \E id \in ContentIds : KeyOf(id) \notin DOMAIN GetAllContentSpeeds(local)
    /\ "defaultSpeed" \in DOMAIN sync /\ "enabled" \in DOMAIN sync
    /\ sync["enabled"] = FALSE

----------------------------------------------------------------------------
(* Navigation handling, one run per target URL *)

\* the URLs of the handleUrlChange runs in progress
RunUrls ==
    {navRuns[i] : i \in 1..Len(navRuns)}
        \cup {loads[i].newUrl : i \in {j \in 1..Len(loads) : loads[j].by = "nav"}}

\* C23: at most one handleUrlChange run is in progress for a given new URL;
\* the pending set holds exactly the URLs of the runs in progress, so it is
\* empty once no navigation is in flight; a call for a URL in the pending set
\* returns without clearing the tracked set, reloading settings or starting a
\* run; a call for a changed URL that is not pending starts a run (also when
\* that URL was processed before).
C23_OneRunPerUrl ==
    /\ [](\A i, j \in 1..Len(navRuns) : navRuns[i] = navRuns[j] => i = j)
    /\ [](processingUrls = RunUrls)
    /\ [](navRuns = <<>> => processingUrls = {})
    /\ [][(UrlTimer /\ url \in processingUrls)
             => UNCHANGED <<navRuns, processingUrls, videos, isEnabled, contentId,
                            currentSpeed, rate>>]_vars
    /\ [][(UrlTimer /\ url \notin processingUrls /\ lastUrl # url)
             => navRuns' = Append(navRuns, url) /\ videos' = {}]_vars
    /\ [][\A u \in PageUrls : UrlSettle(u) => u \notin processingUrls']_vars

\* C23 witness: two runs are in their settle delay, the page went back to the
\* URL of the first of them, and the call for it has just returned early
C23_Witness ==
    /\ lastOp = "urlTimer"
    /\ urlSetBy = "popstate"
    /\ navRuns = <<UrlExample, UrlWatch>>
    /\ url = UrlExample
    /\ videos # {}

\* C24: when a second navigation, to a different URL, has started during the
\* settle delay of a first one, the continuation of the first one modifies
\* neither contentId, currentSpeed nor the tracked set and assigns no
\* playbackRate.
C24_StaleSettleNoOp ==
    [][\A u \in PageUrls :
          (/\ Len(navRuns) >= 2 /\ navRuns[1] = u /\ navRuns[2] # u
           /\ UrlSettle(u))
             => /\ UNCHANGED <<contentId, currentSpeed, videos>>
                /\ wrote' = {}]_vars

----------------------------------------------------------------------------
(* Overlapping loadSettings runs *)

\* C25: when the last of several overlapping loadSettings runs has completed
\* and the extension is enabled, currentSpeed is the rate the store resolves
\* for the enforcer's contentId: its content-specific speed, else the default.
C25_LatestLoadWins ==
    (/\ lastOp = "loadSettingsDone"
     /\ loads = <<>>
     /\ isEnabled)
        => currentSpeed = ExpectedSpeed(sync, local, contentId)

----------------------------------------------------------------------------
(* The rescan debounce *)

\* C26 as stated: at most one rescan timer is pending; a mutation batch that
\* adds a video leaves exactly one pending (it replaces the pending one); a
\* pending timer fires, and when it has none is pending; after the rescan,
\* with the extension enabled, every video element of the document is tracked
\* and has playbackRate equal to currentSpeed.
C26_RescanDebounced ==
    /\ [](videoProcessTimeout <= 1)
    /\ [][\A v \in Videos :
            (PageAddVideo(v) /\ phase = "ready") => videoProcessTimeout' = 1]_vars
    /\ [][RescanTimer => videoProcessTimeout' = 0]_vars
    /\ (videoProcessTimeout > 0) ~> (videoProcessTimeout = 0)
    /\ [][(RescanTimer /\ isEnabled)
             => /\ docVideos \subseteq videos'
                /\ \A v \in docVideos : rate'[v] = currentSpeed]_vars

\* C26 amended: as above, but after the rescan, with the extension enabled,
\* every video element of the document is tracked and every element the
\* rescan newly tracked has been assigned currentSpeed (it has that rate).
C26_RescanDebouncedNewOnly ==
    /\ [](videoProcessTimeout <= 1)
    /\ [][\A v \in Videos :
            (PageAddVideo(v) /\ phase = "ready") => videoProcessTimeout' = 1]_vars
    /\ [][RescanTimer => videoProcessTimeout' = 0]_vars
    /\ (videoProcessTimeout > 0) ~> (videoProcessTimeout = 0)
    /\ [][(RescanTimer /\ isEnabled)
             => /\ docVideos \subseteq videos'
                /\ \A v \in docVideos \ videos :
                      rate'[v] = currentSpeed /\ <<v, currentSpeed>> \in wrote'
                /\ wrote' = Writes(docVideos \ videos, currentSpeed)]_vars

\* C26 witness: a rescan has just run with the extension enabled and assigned
\* a speed other than normal to an element it newly tracked
C26_Witness ==
    /\ lastOp = "rescan"
    /\ isEnabled
    /\ videoProcessTimeout = 0
    /\ \E v \in docVideos : <<v, 30>> \in wrote /\ v \in videos /\ rate[v] = 30

----------------------------------------------------------------------------
(* Elements detached from the document *)

\* C27: the tracked set contains only video elements that are attached to the
\* document, and no playbackRate assignment is made to a detached element.
C27_DetachedNotTracked ==
    /\ videos \subseteq docVideos
    /\ \A w \in wrote : w[1] \in docVideos

----------------------------------------------------------------------------
(* Rate correction *)

\* C28: the ratechange event of an assignment of currentSpeed schedules no
\* correction (the listener finds the rate equal to currentSpeed); assigning
\* the rate an element has already queues no event and schedules nothing; at
\* most one correction is pending per element; and after the page has changed
\* the rate of a tracked element to a value other than currentSpeed and then
\* leaves it alone, the element gets currentSpeed again with no correction
\* timer pending and no event queued.
C28_CorrectionTerminates ==
    /\ [][\A v \in Videos :
            (RateChangeEvent(v) /\ rate[v] = currentSpeed) => UNCHANGED corrTimers]_vars
    /\ [][\A v \in Videos :
            (LoadedMetadata(v) /\ rate[v] = currentSpeed)
               => UNCHANGED <<rcQueued, corrTimers, rate>>]_vars
    /\ [](\A v \in Videos : corrTimers[v] <= 1)
    /\ \A v \in Videos :
          (v \in listening /\ rate[v] # currentSpeed)
             ~> (rate[v] = currentSpeed /\ Quiet(v))

\* C28 witness: a correction timer has just fired and put a rate the page had
\* changed back to currentSpeed; its own ratechange event is queued and no
\* timer is pending
C28_Witness ==
    /\ lastOp = "correction"
    /\ \E v \in listening :
          /\ <<v, currentSpeed>> \in wrote
          /\ v \in rcQueued
          /\ rate[v] = currentSpeed
          /\ corrTimers[v] = 0

----------------------------------------------------------------------------
(* executeInTab *)

----------------------------------------------------------------------------
(* The simple enforcer: storage change notifications *)

\* C30: when the simple enforcer's storage listener handles a notification of
\* the synchronized namespace, a changed enabled leaves the local flag at the
\* new boolean value, with every document video reset when it is false and at
\* currentSpeed when it is true; a changed defaultSpeed leaves defaultSpeed
\* and currentSpeed at the new value, a speed of the range, and every document
\* video at that rate when the enforcer is enabled.  A notification of another
\* namespace changes neither the enforcer's settings nor a rate.
C30_StorageChangeUpdatesView ==
    [][SimpleStorageChanged =>
         LET n == Head(simple.changes)
         IN  IF n.namespace # "sync"
             THEN /\ simple'.enabled = simple.enabled
                  /\ simple'.defaultSpeed = simple.defaultSpeed
                  /\ simple'.currentSpeed = simple.currentSpeed
                  /\ rate' = rate
             ELSE /\ "enabled" \in ChangedKeys(n) =>
                        /\ simple'.enabled \in {"true", "false"}
                        /\ simple'.enabled = NewEnabled(n)
                        /\ simple'.enabled = "false" =>
                              \A v \in docVideos : rate'[v] = SimpleResetRate(simple, v)
                        /\ simple'.enabled = "true" =>
                              \A v \in docVideos : rate'[v] = simple'.currentSpeed
                  /\ "defaultSpeed" \in ChangedKeys(n) =>
                        /\ simple'.defaultSpeed \in MinSpeed..MaxSpeed
                        /\ simple'.defaultSpeed = NewDefaultSpeed(n)
                        /\ simple'.currentSpeed = simple'.defaultSpeed
                        /\ Truthy(simple'.enabled) =>
                              \A v \in docVideos : rate'[v] = simple'.defaultSpeed]_vars

----------------------------------------------------------------------------
(* The simple enforcer: disabled *)

\* the simple enforcer is disabled in sm
SimpleOff(sm) == sm.phase = "ready" /\ ~Truthy(sm.enabled)

\* the assignments of a reset of every document video
SimpleResets == {<<v, SimpleResetRate(simple, v)>> : v \in docVideos}

\* a step that takes the simple enforcer from enabled to disabled leaves every
\* document video at its recorded originalRate, at 1.0 when none is recorded
DisableResets ==
    (~SimpleOff(simple) /\ SimpleOff(simple'))
       => \A v \in docVideos' : rate'[v] = SimpleResetRate(simple, v)

\* while disabled the observer and the correction timers assign nothing
DisabledIgnores ==
    (SimpleOff(simple) /\ SimpleOff(simple'))
       => /\ lastOp' \in {"simpleObserver", "simpleCorrection", "simpleSetSpeed"}
               => wrote' = {}
          /\ \A v \in Videos :
               (SimplePageAddVideo(v) \/ SimpleCorrectionTimer(v)) => rate' = rate

----------------------------------------------------------------------------
(* toggleExtension and the stored flag *)

\* toggleExtension(enabled): the value it gives isEnabled, from isEnabled en
ToggleTarget(en, enabled) ==
    IF enabled # "undefined" THEN enabled = "true" ELSE ~en

\* isEnabled and the synchronized namespace after two toggleExtension
\* messages without payload, handled one after the other from isEnabled en
\* and the namespace s
TwoToggles(en, s) ==
    LET en1 == ToggleTarget(en, "undefined")
        s1 == SetEnabled(s, en1)
        en2 == ToggleTarget(en1, "undefined")
    IN  [isEnabled |-> en2, sync |-> SetEnabled(s1, en2)]

\* C32: a toggleExtension message without payload inverts isEnabled, one with
\* a payload sets it to the payload, and when the handler has completed the
\* stored enabled flag equals isEnabled; from every state in which the
\* enforcer handles messages, two toggles without payload, each a step of the
\* handler as just described, leave isEnabled and the stored flag (true when
\* absent) as they were.
C32_ToggleInvertsAndPersists ==
    /\ [][\A enabled \in TogglePayloads :
            MsgToggleExtension(enabled)
               => /\ isEnabled' = ToggleTarget(isEnabled, enabled)
                  /\ "enabled" \in DOMAIN sync'
                  /\ sync' = SetEnabled(sync, isEnabled')]_vars
    /\ [](phase = "ready" =>
            /\ TwoToggles(isEnabled, sync).isEnabled = isEnabled
            /\ GetEnabled(TwoToggles(isEnabled, sync).sync) = GetEnabled(sync))

----------------------------------------------------------------------------
(* The keys of the entries the enforcer writes *)

\* the handlers of the enforcer that write or remove a content-speed entry
EntryHandlers == {"setContentSpeed", "setSpeed", "adjustSpeed", "removeContentSpeed"}

\* C33: a setContentSpeed, setSpeed, adjustSpeed or removeContentSpeed message
\* changes no entry of the contentSpeeds mapping other than the one keyed by
\* generateContentId of the page's current URL, and the mapping never holds an
\* entry under the null content id.
C33_EntriesKeyedByCurrentUrl ==
    /\ [][lastOp' \in EntryHandlers =>
            \A k \in DOMAIN ContentSpeedsOf(local) \cup DOMAIN ContentSpeedsOf(local') :
                k # GenerateContentId(url)
                   => SameEntry(ContentSpeedsOf(local), ContentSpeedsOf(local'), k)]_vars
    /\ [](KeyOf(NullId) \notin DOMAIN ContentSpeedsOf(local))

----------------------------------------------------------------------------
(* Concurrent calls of the Settings Store *)

\* the update of call c is in the mapping
UpdatePresent(c) ==
    IF c.op = "setContentSpeed"
    THEN /\ KeyOf(c.id) \in DOMAIN ContentSpeedsOf(local)
         /\ ContentSpeedsOf(local)[KeyOf(c.id)] = Clamp(c.speed)
    ELSE KeyOf(c.id) \notin DOMAIN ContentSpeedsOf(local)

\* C34: once all the setContentSpeed and removeContentSpeed calls that were
\* made have completed, the update of every call whose content id no other
\* call had is present in the mapping, however the reads and writes of the
\* calls were interleaved.
C34_NoLostUpdate ==
    (pending # <<>> /\ \A i \in 1..Len(pending) : pending[i].at = "done")
       => \A i \in 1..Len(pending) :
             (\A j \in 1..Len(pending) : j # i => pending[j].id # pending[i].id)
                => UpdatePresent(pending[i])

====
